---- MODULE Spec2Model ----
(***************************************************************************)
(* Model of the service-to-service authentication client (class S2SClient):*)
(* one client instance, used by several callers whose async calls          *)
(* interleave at the await points of the JavaScript source.                *)
(*                                                                         *)
(* Time is Date.now() in milliseconds.  The auth server is the environment:*)
(* it answers every call ok, not ok or not at all (transport error), and a *)
(* successful answer to the chain begun by the k-th method call carries    *)
(* token k (fresh tokens), so that the token stored in the client names    *)
(* the refresh()/authenticate() chain that stored it.                      *)
(*                                                                         *)
(* Three specifications share the variables:                               *)
(*   Spec        the client in use (authenticate, refresh, getValidToken,  *)
(*               request, clearTokens);                                    *)
(*   ConfigSpec  the constructions (S2SClient, S2STokenGenerator,          *)
(*               createS2SAuthMiddleware) and what they throw;             *)
(*   AuthSpec    the token authority (generateTokens, verifyToken,         *)
(*               refreshAccessToken) and the S2S auth middleware, with     *)
(*               jwt.sign / jwt.verify modelled by what jsonwebtoken does: *)
(*               exp = iat + expiresIn, the signature verified before the  *)
(*               expiry, expired once the clock in seconds has reached exp.*)
(***************************************************************************)
EXTENDS Integers, Sequences, FiniteSets, TLC

\* ------------------------------------------------------------- bounds
NumProcs == 2          \* concurrent callers of the one client
MaxOps == 2            \* method calls issued in one behaviour
MaxFine == 2           \* clock: 1 ms instants explored before and after the coarse step

Procs == 1..NumProcs
CoarseTick == (900 * 1000) - 60000   \* from a 900 s token's issue to its margin
TickSet == {1, CoarseTick}     \* clock advances between steps (ms)
Times == {f + (c * CoarseTick) : f \in 1..MaxFine, c \in {0, 1}}
ExpiresInSet == {60, 900}      \* expiresIn values the server answers (s)
ResponseKinds == {"ok", "notok", "throw"}   \* 2xx, non-2xx, transport error

\* ------------------------------------------------------------- constants
Null == 0                      \* null credential / null marker
NoEndpoint == "undefined"      \* authEndpoint neither passed nor in the env
Endpoint == "https://identity"
SafetyMarginMs == 60000        \* getValidToken: refresh 1 minute before expiry
ApiKey == "api-key-1"          \* options.serviceApiKey of the client
ServiceName == "billing"       \* options.serviceName of the client
BodySet == {"", "invalid api key"}   \* response.text() of a non-2xx token answer
ExpiresInOf(kind) == IF kind = "ok" THEN ExpiresInSet ELSE {0}   \* data.expiresIn
BodyOf(kind) == IF kind = "notok" THEN BodySet ELSE {""}          \* response.text()
NotConfigured == <<"S2S_AUTH_ENDPOINT not configured">>
TransportError == <<"fetch failed">>   \* what this.httpClient rejects with
NoError == <<>>
Absent == "undefined"          \* an option or environment variable that is not set
K1 == "secret-1"               \* signing secrets
K2 == "secret-2"
Auths == {"A1", "A2"}          \* S2STokenGenerator objects
\* a path is the sequence of its pieces: '/healthz' is '/health' then 'z'
DefaultExcludePaths == {<<"/health">>, <<"/health", "z">>, <<"/ready">>, <<"/metrics">>}
NoMiddleware == [jwtSecret |-> Absent, excludePaths |-> {}]
NoHeaders == [h \in {} |-> ""]         \* options.headers undefined or {}
OptionsHeaders ==                       \* options.headers a caller passes to request()
  {NoHeaders,
   ("Authorization" :> <<"Basic ", "abc">>) @@ ("X-Service-Name" :> "spoof") @@ ("X-Trace" :> "t1")}
StatusSet == {200, 401}            \* response.status of the target

VARIABLES
  serviceApiKey,       \* this.serviceApiKey
  serviceName,         \* this.serviceName
  authEndpoint,        \* this.authEndpoint
  accessToken,         \* this.accessToken
  refreshToken,        \* this.refreshToken
  accessTokenExpiry,   \* this.accessTokenExpiry
  refreshing,          \* this.refreshing: Null, or the caller whose renewal is pending
  now,                 \* Date.now()
  task,                \* per caller: the refresh()/authenticate() chain it started
  proc,                \* per caller: the method call it is suspended in
  opSeq,               \* method calls issued so far
  tokVia,              \* "gvt" / "direct": how the chain that stored accessToken began
  clearedAt,           \* the number of the last clearTokens() call, 0 before the first
  ev,                  \* what the last step did (history, rewritten by every step)
  jwtSecret,           \* per S2STokenGenerator object: this.jwtSecret
  middleware,          \* the closure createS2SAuthMiddleware returned
  envSecret,           \* process.env.S2S_JWT_SECRET
  issued,              \* the tokens signed so far
  httpClient,          \* the objects createHttpClient and withHeaders returned
  batchRun             \* the withRetry / batch call in progress, its log and its result

\* what the constructor sets and no method assigns
config == <<serviceApiKey, serviceName, authEndpoint>>

vars == <<serviceApiKey, serviceName, authEndpoint, accessToken, refreshToken, accessTokenExpiry, refreshing,
          now, task, proc, opSeq, tokVia, clearedAt, ev, jwtSecret, middleware, envSecret, issued,
          httpClient, batchRun>>

\* the token authority, the middleware and their environment
authority == <<jwtSecret, middleware, envSecret, issued>>

\* the HTTP client wrapper and the batch helpers
helpers == <<httpClient, batchRun>>

\* ------------------------------------------------------------- pure code
\* getValidToken: needsRefresh
NeedsRefreshOffByOne(at, exp, t) ==
  at = Null \/ exp = Null \/ t >= exp - SafetyMarginMs

NeedsRefresh(at, exp, t) ==
  at = Null \/ exp = Null \/ t > exp - SafetyMarginMs

\* getValidToken: a renewal is started only when none is pending
StartsRenewalUnguarded(marker) == TRUE

StartsRenewal(marker) == marker = Null

\* getValidToken: the .finally() callback
MarkerAfterSettleOnSuccessOnly(marker, st) ==
  IF st = "resolved" THEN Null ELSE marker

MarkerAfterSettle(marker, st) == Null

\* authenticate / refresh: expiresIn seconds to an absolute ms expiry
ExpiryOfSeconds(t, expiresIn) == t + expiresIn

ExpiryOf(t, expiresIn) == t + (expiresIn * 1000)

\* authenticate: before the POST
AuthenticateEntry(ep) ==
  IF ep = NoEndpoint THEN "throw" ELSE "postToken"

\* refresh: before the POST
RefreshEntryAlwaysRefresh(rt, ep) ==
  IF ep = NoEndpoint THEN "throw" ELSE "postRefresh"

RefreshEntry(rt, ep) ==
  IF rt = Null THEN AuthenticateEntry(ep)
  ELSE IF ep = NoEndpoint THEN "throw"
  ELSE "postRefresh"

\* refresh: after the answer of the refresh endpoint
RefreshRouteNoFallback(kind) ==
  CASE kind = "throw" -> "throw"
    [] kind = "notok" -> "throw"
    [] OTHER -> "store"

RefreshRouteFallsBackOnThrow(kind) ==
  CASE kind = "throw" -> "reauthenticate"
    [] kind = "notok" -> "reauthenticate"
    [] OTHER -> "store"

RefreshRoute(kind) ==
  CASE kind = "throw" -> "throw"
    [] kind = "notok" -> "reauthenticate"
    [] OTHER -> "store"

\* authenticate: the Error thrown on a non-2xx answer (a template literal:
\* the fixed text followed by the body text)
AuthFailedMessageNoBody(body) == <<"S2S authentication failed">>

AuthFailedMessage(body) == <<"S2S authentication failed", ": ", body>>

\* authenticate: the three assignments after response.json()
Cred(at, rt, exp) == [accessToken |-> at, refreshToken |-> rt, accessTokenExpiry |-> exp]

AuthenticateStoreKeepsRefresh(cur, data, t) ==
  Cred(data.accessToken, cur.refreshToken, ExpiryOf(t, data.expiresIn))

AuthenticateStore(cur, data, t) ==
  Cred(data.accessToken, data.refreshToken, ExpiryOf(t, data.expiresIn))

\* refresh: the two assignments after response.json()
RefreshStoreRotates(cur, data, t) ==
  Cred(data.accessToken, data.refreshToken, ExpiryOf(t, data.expiresIn))

RefreshStore(cur, data, t) ==
  Cred(data.accessToken, cur.refreshToken, ExpiryOf(t, data.expiresIn))

\* request: the headers object, caller's headers spread first
RequestHeadersCallerWins(callerHeaders, token, name) ==
  callerHeaders @@ ("Authorization" :> <<"Bearer ", token>>) @@ ("X-Service-Name" :> name)

RequestHeaders(callerHeaders, token, name) ==
  ("Authorization" :> <<"Bearer ", token>>) @@ ("X-Service-Name" :> name) @@ callerHeaders

\* clearTokens: the three assignments, on the fields of the client
ClearTokensAndMarker(this) ==
  [this EXCEPT !.accessToken = Null, !.refreshToken = Null,
               !.accessTokenExpiry = Null, !.refreshing = Null]

ClearTokensKeepsRefresh(this) ==
  [this EXCEPT !.accessToken = Null, !.accessTokenExpiry = Null]

ClearTokens(this) ==
  [this EXCEPT !.accessToken = Null, !.refreshToken = Null,
               !.accessTokenExpiry = Null]

\* ------------------------------------------------------------- state shapes
\* the fields of the client object
This ==
  [serviceApiKey |-> serviceApiKey, serviceName |-> serviceName,
   authEndpoint |-> authEndpoint, accessToken |-> accessToken,
   refreshToken |-> refreshToken, accessTokenExpiry |-> accessTokenExpiry,
   refreshing |-> refreshing]

CurCred == Cred(accessToken, refreshToken, accessTokenExpiry)

NoTask == [st |-> "none", via |-> "none", entry |-> "none", held |-> FALSE,
           calls |-> <<>>, answers |-> <<>>, start |-> 0]

IdleProc == [pc |-> "idle", op |-> "none", aw |-> 0]

NoData == [accessToken |-> Null, refreshToken |-> Null, expiresIn |-> 0]

NoEv == [type |-> "none"]

\* no createHttpClient call yet
NoClient == [made |-> FALSE]
ClientSlots == {"client", "newClient"}
NoClients == [c \in ClientSlots |-> NoClient]

\* no withRetry / batch call yet
IdleRun == [state |-> "idle"]

\* constructor: all credentials and the marker null
Init ==
  /\ serviceApiKey = ApiKey
  /\ serviceName = ServiceName
  /\ authEndpoint \in {NoEndpoint, Endpoint}
  /\ accessToken = Null
  /\ refreshToken = Null
  /\ accessTokenExpiry = Null
  /\ refreshing = Null
  /\ now = 1
  /\ task = [p \in Procs |-> NoTask]
  /\ proc = [p \in Procs |-> IdleProc]
  /\ opSeq = 0
  /\ tokVia = "none"
  /\ clearedAt = 0
  /\ ev = NoEv
  /\ jwtSecret = [a \in Auths |-> Absent]
  /\ middleware = NoMiddleware
  /\ envSecret = Absent
  /\ issued = {}
  /\ httpClient = NoClients
  /\ batchRun = IdleRun

\* ------------------------------------------------------------- the chain
\* The synchronous head of refresh() / authenticate(): up to the first await.
ChainBegin(via, entry) ==
  LET route == IF entry = "refresh" THEN RefreshEntry(refreshToken, authEndpoint)
               ELSE AuthenticateEntry(authEndpoint)
  IN [st |-> CASE route = "throw" -> "rejected"
               [] route = "postToken" -> "waitToken"
               [] OTHER -> "waitRefresh",
      via |-> via,
      entry |-> entry,
      held |-> refreshToken # Null,
      answers |-> <<>>,
      calls |-> CASE route = "throw" -> <<>>
                  [] route = "postToken" -> <<"token">>
                  [] OTHER -> <<"refresh">>,
      start |-> opSeq + 1]

\* The chain tk of caller p ends on the answer `kind` ("none": it threw before
\* any call): with res = "resolved" it has stored newCred (what it returns is
\* read from the fields it has just assigned); with "rejected" it throws.
\* Reading the body (response.json(), response.text()) is part of the step
\* that receives the answer: nothing of the client is read or written in
\* between.  A direct call returns to its caller; a renewal started by
\* getValidToken stays until its .finally() callback has run.
ChainEnd(p, tk, kind, res, newCred, data, err) ==
  LET stored == res = "resolved"
      answers == IF kind = "none" THEN tk.answers ELSE Append(tk.answers, kind)
  IN
  /\ accessToken' = newCred.accessToken
  /\ refreshToken' = newCred.refreshToken
  /\ accessTokenExpiry' = newCred.accessTokenExpiry
  /\ tokVia' = IF stored THEN tk.via ELSE tokVia
  /\ ev' = [type |-> "done", p |-> p, entry |-> tk.entry, via |-> tk.via,
            held |-> tk.held, outcome |-> res, calls |-> tk.calls,
            answers |-> answers, data |-> data, err |-> err, t |-> now,
            marker |-> refreshing,
            before |-> CurCred, after |-> newCred,
            ret |-> IF ~stored THEN <<Null, Null>>
                    ELSE IF tk.calls[Len(tk.calls)] = "token"
                    THEN <<accessToken', refreshToken'>>
                    ELSE <<accessToken', Null>>,
            start |-> tk.start,
            overStart |-> IF stored THEN accessToken ELSE Null,
            overVia |-> IF stored /\ accessToken # Null THEN tokVia ELSE "none"]
  /\ IF tk.via = "direct"
     THEN /\ task' = [task EXCEPT ![p] = NoTask]
          /\ proc' = [proc EXCEPT ![p] = IdleProc]
     ELSE /\ task' = [task EXCEPT ![p] = [tk EXCEPT !.st = res, !.answers = answers]]
          /\ proc' = proc

\* A direct call of authenticate() or refresh() by caller p.
CallDirect(p, entry) ==
  LET tk == ChainBegin("direct", entry) IN
  /\ proc[p].pc = "idle"
  /\ opSeq < MaxOps
  /\ opSeq' = opSeq + 1
  /\ IF tk.st = "rejected"
     THEN ChainEnd(p, tk, "none", "rejected", CurCred, NoData, NotConfigured)
     ELSE /\ task' = [task EXCEPT ![p] = tk]
          /\ proc' = [proc EXCEPT ![p] = [IdleProc EXCEPT !.pc = "chain", !.op = entry]]
          /\ ev' = [type |-> "call", p |-> p, entry |-> entry, calls |-> tk.calls,
                    before |-> CurCred]
          /\ UNCHANGED <<accessToken, refreshToken, accessTokenExpiry, tokVia>>
  /\ UNCHANGED <<clearedAt, helpers, authority, config, refreshing, now>>

authenticate(p) == CallDirect(p, "authenticate")

refresh(p) == CallDirect(p, "refresh")

\* getValidToken() as called by p, for itself (op = "getValidToken") or as the
\* first statement of request() (op = "request").  With a usable token it
\* returns this.accessToken at once, and request() calls the target with it
\* (the token request() sends is the value getValidToken() returned, so the
\* target call is part of the step that returns it).  options is an argument
\* request() reads only when it builds that call, so it is drawn there.
GetToken(p, op) ==
  LET needs == NeedsRefresh(accessToken, accessTokenExpiry, now)
      tk == ChainBegin("gvt", "refresh")
      base == [type |-> "gvt", p |-> p, op |-> op,
               seen |-> [accessToken |-> accessToken,
                         accessTokenExpiry |-> accessTokenExpiry, now |-> now],
               marker |-> refreshing]
  IN
  /\ proc[p].pc = "idle"
  /\ opSeq < MaxOps
  /\ opSeq' = opSeq + 1
  /\ IF ~needs
     THEN /\ proc' = [proc EXCEPT ![p] =
                IF op = "getValidToken" THEN IdleProc
                ELSE [IdleProc EXCEPT !.pc = "waitTarget", !.op = op]]
          /\ \E h \in (IF op = "request" THEN OptionsHeaders ELSE {NoHeaders}) :
                ev' = base @@ [path |-> "cached", ret |-> accessToken,
                               called |-> (op = "request"), posts |-> <<>>,
                               opts |-> IF op = "request" THEN h ELSE NoHeaders,
                               sent |-> IF op = "request"
                                        THEN RequestHeaders(h, accessToken, serviceName)
                                        ELSE NoHeaders]
          /\ UNCHANGED <<task, refreshing>>
     ELSE IF StartsRenewal(refreshing)
     THEN /\ task' = [task EXCEPT ![p] = tk]
          /\ refreshing' = p
          /\ proc' = [proc EXCEPT ![p] =
                [IdleProc EXCEPT !.pc = "awaitRenewal", !.op = op, !.aw = p]]
          /\ ev' = base @@ [path |-> "started", ret |-> Null, called |-> FALSE,
                            posts |-> tk.calls]
     ELSE /\ proc' = [proc EXCEPT ![p] =
                [IdleProc EXCEPT !.pc = "awaitRenewal", !.op = op, !.aw = refreshing]]
          /\ ev' = base @@ [path |-> "joined", ret |-> Null, called |-> FALSE,
                            posts |-> <<>>]
          /\ UNCHANGED <<task, refreshing>>
  /\ UNCHANGED <<clearedAt, helpers, authority, config, accessToken, refreshToken, accessTokenExpiry, now,
                 tokVia>>

getValidToken(p) == GetToken(p, "getValidToken")

request(p) == GetToken(p, "request")

\* The refresh endpoint answers the call of p's chain.
refreshResponse(p, kind, e) ==
  LET tk == task[p]
      route == RefreshRoute(kind)
      data == [accessToken |-> tk.start, refreshToken |-> Null, expiresIn |-> e]
  IN
  /\ tk.st = "waitRefresh"
  /\ CASE route = "store" ->
            ChainEnd(p, tk, kind, "resolved", RefreshStore(CurCred, data, now), data,
                     NoError)
       [] route = "reauthenticate" ->
            \* this.refreshToken = null; return this.authenticate()
            IF AuthenticateEntry(authEndpoint) = "throw"
            THEN ChainEnd(p, tk, kind, "rejected",
                          [CurCred EXCEPT !.refreshToken = Null], NoData,
                          NotConfigured)
            ELSE /\ refreshToken' = Null
                 /\ task' = [task EXCEPT ![p] =
                       [tk EXCEPT !.st = "waitToken", !.calls = Append(@, "token"),
                                  !.answers = Append(@, kind)]]
                 /\ ev' = [type |-> "fallback", p |-> p, before |-> CurCred]
                 /\ UNCHANGED <<accessToken, accessTokenExpiry, proc, tokVia>>
       [] OTHER ->
            ChainEnd(p, tk, kind, "rejected", CurCred, NoData, TransportError)
  /\ UNCHANGED <<clearedAt, helpers, authority, config, refreshing, now, opSeq>>

\* The token endpoint answers the call of p's chain.
tokenResponse(p, kind, e, body) ==
  LET tk == task[p]
      data == [accessToken |-> tk.start, refreshToken |-> tk.start, expiresIn |-> e]
  IN
  /\ tk.st = "waitToken"
  /\ IF kind = "ok"
     THEN ChainEnd(p, tk, kind, "resolved", AuthenticateStore(CurCred, data, now), data,
                   NoError)
     ELSE IF kind = "notok"
     THEN ChainEnd(p, tk, kind, "rejected", CurCred, [text |-> body],
                   AuthFailedMessage(body))
     ELSE ChainEnd(p, tk, kind, "rejected", CurCred, NoData, TransportError)
  /\ UNCHANGED <<clearedAt, helpers, authority, config, refreshing, now, opSeq>>

\* The callers suspended in "await this.refreshing" on the renewal of p.
Awaiters(p) == {q \in Procs : proc[q].pc = "awaitRenewal" /\ proc[q].aw = p}

\* getValidToken after "await this.refreshing": return this.accessToken;
\* request() then calls the target with the token returned.
Resume(q, st) ==
  IF st = "rejected" \/ proc[q].op = "getValidToken" THEN IdleProc
  ELSE [proc[q] EXCEPT !.pc = "waitTarget", !.aw = 0]

\* The renewal promise of p settles: the .finally() callback runs, then every
\* caller awaiting that promise resumes (their reactions are queued together).
renewalSettled(p) ==
  /\ task[p].via = "gvt"
  /\ task[p].st \in {"resolved", "rejected"}
  /\ refreshing' = MarkerAfterSettle(refreshing, task[p].st)
  /\ proc' = [q \in Procs |-> IF q \in Awaiters(p) THEN Resume(q, task[p].st)
                              ELSE proc[q]]
  /\ task' = [task EXCEPT ![p] = NoTask]
  /\ LET called == {q \in Awaiters(p) : Resume(q, task[p].st).pc = "waitTarget"} IN
     \E hs \in [called -> OptionsHeaders] :
       ev' = [type |-> "settled", p |-> p, st |-> task[p].st, calls |-> task[p].calls,
              answers |-> task[p].answers,
              start |-> task[p].start,
              resumed |-> Awaiters(p),
              requests |-> {q \in Awaiters(p) : proc[q].op = "request"},
              ret |-> [q \in Awaiters(p) |-> accessToken],
              called |-> called,
              opts |-> hs,
              sent |-> [q \in called |-> RequestHeaders(hs[q], accessToken, serviceName)]]
  /\ UNCHANGED <<clearedAt, helpers, authority, config, accessToken, refreshToken, accessTokenExpiry, now,
                 opSeq, tokVia>>

\* request(): the target answers; the Response is returned as it is.
targetResponse(p, status) ==
  /\ proc[p].pc = "waitTarget"
  /\ proc' = [proc EXCEPT ![p] = IdleProc]
  /\ ev' = [type |-> "target", p |-> p, status |-> status, ret |-> status]
  /\ UNCHANGED <<clearedAt, helpers, authority, config, accessToken, refreshToken, accessTokenExpiry,
                 refreshing, now, task, opSeq, tokVia>>

clearTokens ==
  LET after == ClearTokens(This) IN
  /\ opSeq < MaxOps
  /\ opSeq' = opSeq + 1
  /\ serviceApiKey' = after.serviceApiKey
  /\ serviceName' = after.serviceName
  /\ authEndpoint' = after.authEndpoint
  /\ accessToken' = after.accessToken
  /\ refreshToken' = after.refreshToken
  /\ accessTokenExpiry' = after.accessTokenExpiry
  /\ refreshing' = after.refreshing
  /\ tokVia' = "none"
  /\ clearedAt' = opSeq + 1
  /\ ev' = [type |-> "clear", before |-> CurCred, marker |-> refreshing,
            this |-> This, tasks |-> task, procs |-> proc]
  /\ UNCHANGED <<helpers, authority, now, task, proc>>

\* Date.now() advances
tick(d) ==
  /\ now + d \in Times
  /\ now' = now + d
  /\ ev' = [type |-> "tick"]
  /\ UNCHANGED <<clearedAt, helpers, authority, config, accessToken, refreshToken, accessTokenExpiry,
                 refreshing, task, proc, opSeq, tokVia>>

Next ==
  \/ \E p \in Procs : authenticate(p)
  \/ \E p \in Procs : refresh(p)
  \/ \E p \in Procs : getValidToken(p)
  \/ \E p \in Procs : request(p)
  \/ \E p \in Procs, kind \in ResponseKinds :
        \E e \in ExpiresInOf(kind) : refreshResponse(p, kind, e)
  \/ \E p \in Procs, kind \in ResponseKinds :
        \E e \in ExpiresInOf(kind), body \in BodyOf(kind) : tokenResponse(p, kind, e, body)
  \/ \E p \in Procs : renewalSettled(p)
  \/ \E p \in Procs, status \in StatusSet : targetResponse(p, status)
  \/ clearTokens
  \/ \E d \in TickSet : tick(d)

Spec == Init /\ [][Next]_vars

\* ------------------------------------------------------------- construction
\* JavaScript truthiness of an option: undefined and '' are falsy
Falsy(v) == v \in {Absent, ""}

\* a || b
Or(a, b) == IF Falsy(a) THEN b ELSE a

\* a destructuring default ({ a = b } = options) applies to undefined only
Default(a, b) == IF a = Absent THEN b ELSE a

ApiKeyArgs == {Absent, "", ApiKey}
ServiceNameArgs == {Absent, ServiceName}
EndpointArgs == {Absent, Endpoint}
SecretArgs == {Absent, "", K1, K2}
PathsAbsent == {<<Absent>>}    \* options.excludePaths not passed
ExcludeArgs == {PathsAbsent, {<<"/internal">>}}
ClientOptions ==
  [serviceApiKey : ApiKeyArgs, serviceName : ServiceNameArgs, authEndpoint : EndpointArgs]
MiddlewareOptions == [jwtSecret : SecretArgs, excludePaths : ExcludeArgs]

\* new S2SClient(options): what it throws, or the fields of the new object
S2SClientConstructorNameFirst(options, envEndpoint) ==
  IF Falsy(options.serviceName)
  THEN [threw |-> TRUE, error |-> <<"SERVICE_NAME is required for S2S authentication">>]
  ELSE IF Falsy(options.serviceApiKey)
  THEN [threw |-> TRUE, error |-> <<"SERVICE_API_KEY is required for S2S authentication">>]
  ELSE [threw |-> FALSE, error |-> NoError,
        this |-> [serviceApiKey |-> options.serviceApiKey,
                  serviceName |-> options.serviceName,
                  authEndpoint |-> Or(options.authEndpoint, envEndpoint),
                  accessToken |-> Null, refreshToken |-> Null,
                  accessTokenExpiry |-> Null, refreshing |-> Null]]

S2SClientConstructor(options, envEndpoint) ==
  IF Falsy(options.serviceApiKey)
  THEN [threw |-> TRUE, error |-> <<"SERVICE_API_KEY is required for S2S authentication">>]
  ELSE IF Falsy(options.serviceName)
  THEN [threw |-> TRUE, error |-> <<"SERVICE_NAME is required for S2S authentication">>]
  ELSE [threw |-> FALSE, error |-> NoError,
        this |-> [serviceApiKey |-> options.serviceApiKey,
                  serviceName |-> options.serviceName,
                  authEndpoint |-> Or(options.authEndpoint, envEndpoint),
                  accessToken |-> Null, refreshToken |-> Null,
                  accessTokenExpiry |-> Null, refreshing |-> Null]]

\* new S2STokenGenerator(jwtSecret)
S2STokenGeneratorConstructor(arg, env) ==
  LET secret == Or(arg, env) IN
  IF Falsy(secret)
  THEN [threw |-> TRUE, error |-> <<"S2S_JWT_SECRET is required">>]
  ELSE [threw |-> FALSE, error |-> NoError, jwtSecret |-> secret]

\* createS2SAuthMiddleware(options)
CreateS2SAuthMiddleware(options, env) ==
  LET secret == Default(options.jwtSecret, env)
      exclude == IF options.excludePaths = PathsAbsent THEN DefaultExcludePaths
                 ELSE options.excludePaths
  IN IF Falsy(secret)
     THEN [threw |-> TRUE,
           error |-> <<"S2S_JWT_SECRET is required", " for S2S authentication middleware">>]
     ELSE [threw |-> FALSE, error |-> NoError,
           closure |-> [jwtSecret |-> secret, excludePaths |-> exclude]]

\* Nothing is constructed yet; the environment may or may not hold a secret.
ConfigInit ==
  /\ serviceApiKey = Absent
  /\ serviceName = Absent
  /\ authEndpoint = Absent
  /\ accessToken = Null
  /\ refreshToken = Null
  /\ accessTokenExpiry = Null
  /\ refreshing = Null
  /\ now = 1
  /\ task = [p \in Procs |-> NoTask]
  /\ proc = [p \in Procs |-> IdleProc]
  /\ opSeq = 0
  /\ tokVia = "none"
  /\ clearedAt = 0
  /\ ev = NoEv
  /\ jwtSecret = [a \in Auths |-> Absent]
  /\ middleware = NoMiddleware
  /\ envSecret \in {Absent, "", K2}
  /\ issued = {}
  /\ httpClient = NoClients
  /\ batchRun = IdleRun

\* client = new S2SClient(options): the variable is assigned only if the
\* constructor returns
newS2SClient(options, envEndpoint) ==
  LET r == S2SClientConstructor(options, envEndpoint)
      obj == IF r.threw THEN This ELSE r.this
  IN
  /\ serviceApiKey' = obj.serviceApiKey
  /\ serviceName' = obj.serviceName
  /\ authEndpoint' = obj.authEndpoint
  /\ accessToken' = obj.accessToken
  /\ refreshToken' = obj.refreshToken
  /\ accessTokenExpiry' = obj.accessTokenExpiry
  /\ refreshing' = obj.refreshing
  /\ ev' = [type |-> "newClient", options |-> options, threw |-> r.threw,
            error |-> r.error, before |-> This, tasks |-> task]
  /\ UNCHANGED <<clearedAt, helpers, authority, now, task, proc, opSeq, tokVia>>

\* a = new S2STokenGenerator(arg)
newS2STokenGenerator(a, arg) ==
  LET r == S2STokenGeneratorConstructor(arg, envSecret) IN
  /\ jwtSecret' = IF r.threw THEN jwtSecret ELSE [jwtSecret EXCEPT ![a] = r.jwtSecret]
  /\ ev' = [type |-> "newGenerator", a |-> a, arg |-> arg, env |-> envSecret,
            threw |-> r.threw, error |-> r.error, before |-> jwtSecret]
  /\ UNCHANGED <<clearedAt, helpers, config, accessToken, refreshToken, accessTokenExpiry, refreshing,
                 now, task, proc, opSeq, tokVia, middleware, envSecret, issued>>

\* middleware = createS2SAuthMiddleware(options)
createS2SAuthMiddleware(options) ==
  LET r == CreateS2SAuthMiddleware(options, envSecret) IN
  /\ middleware' = IF r.threw THEN middleware ELSE r.closure
  /\ ev' = [type |-> "newMiddleware", options |-> options, env |-> envSecret,
            threw |-> r.threw, error |-> r.error, before |-> middleware]
  /\ UNCHANGED <<clearedAt, helpers, config, accessToken, refreshToken, accessTokenExpiry, refreshing,
                 now, task, proc, opSeq, tokVia, jwtSecret, envSecret, issued>>

ConfigNext ==
  \/ \E options \in ClientOptions, envEndpoint \in EndpointArgs :
        newS2SClient(options, envEndpoint)
  \/ \E a \in Auths, arg \in SecretArgs : newS2STokenGenerator(a, arg)
  \/ \E options \in MiddlewareOptions : createS2SAuthMiddleware(options)

ConfigSpec == ConfigInit /\ [][ConfigNext]_vars

\* ------------------------------------------------------------- tokens
MaxMints == 2                  \* generateTokens / refreshAccessToken calls in one behaviour

AccessLifetime == 15 * 60      \* accessTokenExpiresIn (s)
RefreshLifetime == 24 * 60 * 60    \* refreshTokenExpiresIn (s)
ServiceNames == {"billing", "Billing "}
\* the instants of Date.now() (ms): around the issue of a first token, the end
\* of an access token's lifetime, the end of a refresh token's, and past the
\* end of everything the first refresh token can mint
AuthTimes ==
  {1000, 1999} \cup
  {1000 + (c * 1000) : c \in {AccessLifetime - 1, AccessLifetime,
                              RefreshLifetime - 1, RefreshLifetime}} \cup
  {1000 + ((RefreshLifetime + AccessLifetime) * 1000) + 1}

\* Math.floor(Date.now() / 1000)
ClockSeconds(t) == t \div 1000

\* jwt.sign(payload, secret, { expiresIn }): the claims, exp = iat + expiresIn,
\* and a signature only the same secret verifies
JwtSign(payload, secret, expiresIn) ==
  [type |-> payload.type, service |-> payload.service, iat |-> payload.iat,
   exp |-> payload.iat + expiresIn, sig |-> secret]

\* a string that is not a JWT
Malformed == [type |-> "", service |-> "", iat |-> 0, exp |-> 0, sig |-> "none"]

\* jwt.verify(token, secret): the payload, or the name of the error thrown;
\* the signature is verified before the expiry is looked at
JwtVerify(token, secret, t) ==
  IF token = Malformed \/ token.sig # secret
  THEN [ok |-> FALSE, name |-> "JsonWebTokenError"]
  ELSE IF ClockSeconds(t) >= token.exp
  THEN [ok |-> FALSE, name |-> "TokenExpiredError"]
  ELSE [ok |-> TRUE,
        payload |-> [type |-> token.type, service |-> token.service,
                     iat |-> token.iat, exp |-> token.exp]]

\* S2STokenGenerator.generateTokens
GenerateTokensNormalised(secret, service, t) ==
  LET name == IF service = "Billing " THEN "billing" ELSE service IN
  [accessToken |-> JwtSign([type |-> "access", service |-> name,
                            iat |-> ClockSeconds(t)], secret, AccessLifetime),
   refreshToken |-> JwtSign([type |-> "refresh", service |-> name,
                             iat |-> ClockSeconds(t)], secret, RefreshLifetime),
   expiresIn |-> AccessLifetime]

GenerateTokens(secret, service, t) ==
  [accessToken |-> JwtSign([type |-> "access", service |-> service,
                            iat |-> ClockSeconds(t)], secret, AccessLifetime),
   refreshToken |-> JwtSign([type |-> "refresh", service |-> service,
                             iat |-> ClockSeconds(t)], secret, RefreshLifetime),
   expiresIn |-> AccessLifetime]

\* S2STokenGenerator.verifyToken
VerifyTokenDecodeOnly(secret, token, t) ==
  IF token = Malformed THEN [valid |-> FALSE, error |-> "Invalid token"]
  ELSE IF ClockSeconds(t) >= token.exp THEN [valid |-> FALSE, error |-> "Token expired"]
  ELSE [valid |-> TRUE,
        payload |-> [type |-> token.type, service |-> token.service,
                     iat |-> token.iat, exp |-> token.exp]]

VerifyTokenOneError(secret, token, t) ==
  LET r == JwtVerify(token, secret, t) IN
  IF r.ok THEN [valid |-> TRUE, payload |-> r.payload]
  ELSE [valid |-> FALSE, error |-> "Invalid token"]

VerifyToken(secret, token, t) ==
  LET r == JwtVerify(token, secret, t) IN
  IF r.ok THEN [valid |-> TRUE, payload |-> r.payload]
  ELSE [valid |-> FALSE,
        error |-> IF r.name = "TokenExpiredError" THEN "Token expired"
                  ELSE "Invalid token"]

\* S2STokenGenerator.refreshAccessToken
RefreshAccessTokenRotates(secret, token, t) ==
  LET result == VerifyToken(secret, token, t) IN
  IF ~result.valid THEN [error |-> result.error]
  ELSE IF result.payload.type # "refresh" THEN [error |-> "Invalid token type"]
  ELSE [accessToken |-> JwtSign([type |-> "access", service |-> result.payload.service,
                                 iat |-> ClockSeconds(t)], secret, AccessLifetime),
        refreshToken |-> JwtSign([type |-> "refresh", service |-> result.payload.service,
                                  iat |-> ClockSeconds(t)], secret, RefreshLifetime),
        expiresIn |-> AccessLifetime]

RefreshAccessTokenIgnoresExpiry(secret, token, t) ==
  IF token = Malformed \/ token.sig # secret THEN [error |-> "Invalid token"]
  ELSE IF token.type # "refresh" THEN [error |-> "Invalid token type"]
  ELSE [accessToken |-> JwtSign([type |-> "access", service |-> token.service,
                                 iat |-> ClockSeconds(t)], secret, AccessLifetime),
        expiresIn |-> AccessLifetime]

RefreshAccessTokenNoTypeCheck(secret, token, t) ==
  LET result == VerifyToken(secret, token, t) IN
  IF ~result.valid THEN [error |-> result.error]
  ELSE [accessToken |-> JwtSign([type |-> "access", service |-> result.payload.service,
                                 iat |-> ClockSeconds(t)], secret, AccessLifetime),
        expiresIn |-> AccessLifetime]

RefreshAccessToken(secret, token, t) ==
  LET result == VerifyToken(secret, token, t) IN
  IF ~result.valid THEN [error |-> result.error]
  ELSE IF result.payload.type # "refresh" THEN [error |-> "Invalid token type"]
  ELSE [accessToken |-> JwtSign([type |-> "access", service |-> result.payload.service,
                                 iat |-> ClockSeconds(t)], secret, AccessLifetime),
        expiresIn |-> AccessLifetime]

\* Two authorities with different secrets; the middleware verifies with the
\* first one's; nothing is signed yet.
AuthInit ==
  /\ serviceApiKey = ApiKey
  /\ serviceName = ServiceName
  /\ authEndpoint = Endpoint
  /\ accessToken = Null
  /\ refreshToken = Null
  /\ accessTokenExpiry = Null
  /\ refreshing = Null
  /\ now = 1000
  /\ task = [p \in Procs |-> NoTask]
  /\ proc = [p \in Procs |-> IdleProc]
  /\ opSeq = 0
  /\ tokVia = "none"
  /\ clearedAt = 0
  /\ ev = NoEv
  /\ jwtSecret = [a \in Auths |-> IF a = "A1" THEN K1 ELSE K2]
  /\ middleware = [jwtSecret |-> K1, excludePaths |-> DefaultExcludePaths]
  /\ envSecret = Absent
  /\ issued = {}
  /\ httpClient = NoClients
  /\ batchRun = IdleRun

\* what the token steps leave alone
client == <<config, accessToken, refreshToken, accessTokenExpiry, refreshing,
            task, proc, tokVia, clearedAt>>

\* the strings a caller can present: the tokens signed so far and a non-token
Presentable == issued \cup {Malformed}

generateTokens(a, name) ==
  LET r == GenerateTokens(jwtSecret[a], name, now) IN
  /\ opSeq < MaxMints
  /\ opSeq' = opSeq + 1
  /\ issued' = issued \cup {r.accessToken, r.refreshToken}
  /\ ev' = [type |-> "generate", a |-> a, name |-> name, t |-> now, result |-> r]
  /\ UNCHANGED <<helpers, client, now, jwtSecret, middleware, envSecret>>

verifyToken(a, token) ==
  /\ ev' = [type |-> "verify", a |-> a, token |-> token, t |-> now,
            result |-> VerifyToken(jwtSecret[a], token, now)]
  /\ UNCHANGED <<helpers, client, authority, now, opSeq>>

refreshAccessToken(a, token) ==
  LET r == RefreshAccessToken(jwtSecret[a], token, now)
      minted == IF "accessToken" \in DOMAIN r THEN {r.accessToken} ELSE {}
  IN
  /\ opSeq < MaxMints
  /\ opSeq' = opSeq + 1
  /\ issued' = issued \cup minted
  /\ ev' = [type |-> "refreshToken", a |-> a, token |-> token, t |-> now,
            result |-> r, minted |-> minted, before |-> issued]
  /\ UNCHANGED <<helpers, client, now, jwtSecret, middleware, envSecret>>

\* Date.now() advances
authTick(t) ==
  /\ t > now
  /\ now' = t
  /\ ev' = [type |-> "tick"]
  /\ UNCHANGED <<helpers, client, authority, opSeq>>

\* ------------------------------------------------------------- middleware
\* s.startsWith(prefix), on sequences of pieces
StartsWith(s, prefix) ==
  Len(prefix) <= Len(s) /\ SubSeq(s, 1, Len(prefix)) = prefix

RequestPaths == {<<"/api">>, <<"/health">>, <<"/health", "check">>}
Schemes == {Absent, "", "bearer ", "Bearer "}
\* req.get('Authorization'): undefined, '', or a scheme and what follows it
AuthHeaders(tokens) ==
  {[scheme |-> sc, token |-> Malformed] : sc \in Schemes}
  \cup {[scheme |-> "Bearer ", token |-> tk] : tk \in tokens}
Unauthorized == 401
NoService == [name |-> Absent, authenticated |-> FALSE]    \* req.service not set
Reply(message, code) ==
  [status |-> Unauthorized, error |-> "Unauthorized", message |-> message,
   code |-> code, next |-> 0, service |-> NoService, header |-> Absent]
Proceed(service, header) ==
  [status |-> 0, error |-> "", message |-> "", code |-> Absent, next |-> 1,
   service |-> service, header |-> header]

\* the function createS2SAuthMiddleware returns, applied to one request
S2SAuthMiddlewareNoTypeCheck(mw, path, authHeader, t) ==
  IF \E e \in mw.excludePaths : StartsWith(path, e)
  THEN Proceed(NoService, Absent)
  ELSE IF Falsy(authHeader.scheme)
  THEN Reply("Authorization header required", Absent)
  ELSE IF authHeader.scheme # "Bearer "
  THEN Reply("Invalid authorization format. Use: Bearer <token>", Absent)
  ELSE LET r == JwtVerify(authHeader.token, mw.jwtSecret, t) IN
       IF r.ok
       THEN Proceed([name |-> r.payload.service, authenticated |-> TRUE],
                    r.payload.service)
       ELSE IF r.name = "TokenExpiredError"
       THEN Reply("Token expired", "TOKEN_EXPIRED")
       ELSE Reply("Invalid token", Absent)

S2SAuthMiddleware(mw, path, authHeader, t) ==
  IF \E e \in mw.excludePaths : StartsWith(path, e)
  THEN Proceed(NoService, Absent)
  ELSE IF Falsy(authHeader.scheme)
  THEN Reply("Authorization header required", Absent)
  ELSE IF authHeader.scheme # "Bearer "
  THEN Reply("Invalid authorization format. Use: Bearer <token>", Absent)
  ELSE LET r == JwtVerify(authHeader.token, mw.jwtSecret, t) IN
       IF r.ok
       THEN IF r.payload.type # "access"
            THEN Reply("Invalid token type", Absent)
            ELSE Proceed([name |-> r.payload.service, authenticated |-> TRUE],
                         r.payload.service)
       ELSE IF r.name = "TokenExpiredError"
       THEN Reply("Token expired", "TOKEN_EXPIRED")
       ELSE Reply("Invalid token", Absent)

\* one request through the middleware
s2sAuthMiddleware(path, authHeader) ==
  /\ ev' = [type |-> "request", path |-> path, authHeader |-> authHeader, t |-> now,
            res |-> S2SAuthMiddleware(middleware, path, authHeader, now)]
  /\ UNCHANGED <<helpers, client, authority, now, opSeq>>

\* createOptionalS2SAuthMiddleware: its closure holds the secret alone, and
\* nothing is thrown when there is none
OptionalSecrets == {Absent, K1}
Unauthenticated == [authenticated |-> FALSE]

\* the function createOptionalS2SAuthMiddleware returns, applied to one request
OptionalS2SAuthMiddlewareNoTypeCheck(secret, authHeader, t) ==
  IF Falsy(authHeader.scheme) \/ authHeader.scheme # "Bearer "
  THEN [status |-> 0, next |-> 1, service |-> Unauthenticated]
  ELSE LET r == JwtVerify(authHeader.token, secret, t) IN
       [status |-> 0, next |-> 1,
        service |-> IF r.ok
                    THEN [name |-> r.payload.service, authenticated |-> TRUE]
                    ELSE Unauthenticated]

OptionalS2SAuthMiddleware(secret, authHeader, t) ==
  IF Falsy(authHeader.scheme) \/ authHeader.scheme # "Bearer "
  THEN [status |-> 0, next |-> 1, service |-> Unauthenticated]
  ELSE LET r == JwtVerify(authHeader.token, secret, t) IN
       [status |-> 0, next |-> 1,
        service |-> IF r.ok /\ r.payload.type = "access"
                    THEN [name |-> r.payload.service, authenticated |-> TRUE]
                    ELSE Unauthenticated]

\* one request through the optional middleware
optionalS2SAuthMiddleware(secret, authHeader) ==
  /\ ev' = [type |-> "optional", secret |-> secret, authHeader |-> authHeader,
            t |-> now, res |-> OptionalS2SAuthMiddleware(secret, authHeader, now)]
  /\ UNCHANGED <<helpers, client, authority, now, opSeq>>

AuthNext ==
  \/ \E a \in Auths, name \in ServiceNames : generateTokens(a, name)
  \/ \E a \in Auths, token \in Presentable : verifyToken(a, token)
  \/ \E a \in Auths, token \in Presentable : refreshAccessToken(a, token)
  \/ \E path \in RequestPaths, authHeader \in AuthHeaders(Presentable) :
        s2sAuthMiddleware(path, authHeader)
  \/ \E secret \in OptionalSecrets, authHeader \in AuthHeaders(Presentable) :
        optionalS2SAuthMiddleware(secret, authHeader)
  \/ \E t \in AuthTimes : authTick(t)

AuthSpec == AuthInit /\ [][AuthNext]_vars

\* ------------------------------------------------------------- HTTP client
CORRELATION_HEADER == "x-correlation-id"

CorrelationIdArgs == {Absent, "", "cid-1"}
HttpServiceNameArgs == {Absent, "billing"}
NoBaseUrl == <<>>                        \* baseUrl = ''
BaseUrlArgs == {<<Absent>>, <<"http", "://api">>}
\* the options createHttpClient is called with
HttpClientOptions ==
  [correlationId : CorrelationIdArgs, serviceName : HttpServiceNameArgs, baseUrl : BaseUrlArgs]
\* the argument of withHeaders
AdditionalHeaders ==
  {("X-Custom" :> "value"),
   ("X-Custom" :> "value") @@ ("Content-Type" :> "text/plain")}
\* fetchOptions.headers of one request
FetchHeaders == {NoHeaders, ("Accept" :> "text/csv")}
Urls == {<<"/users">>, <<"http", "://other/users">>}
Responses ==
  {[ok |-> TRUE, status |-> 200, contentType |-> "application/json"],
   [ok |-> TRUE, status |-> 200, contentType |-> "text/plain"],
   [ok |-> FALSE, status |-> 500, contentType |-> "text/plain"]}

\* ...(value && { [name]: value })
HeaderIf(value, name) == IF Falsy(value) THEN NoHeaders ELSE (name :> value)

\* createHttpClient(options): of the options only correlationId, serviceName
\* and baseUrl are read; the closure keeps options for withHeaders
CreateHttpClient(options) ==
  [made |-> TRUE,
   options |-> options,
   baseUrl |-> IF options.baseUrl = <<Absent>> THEN NoBaseUrl ELSE options.baseUrl,
   defaultHeaders |-> HeaderIf(options.serviceName, "X-Service-Name")
                      @@ HeaderIf(options.correlationId, CORRELATION_HEADER)
                      @@ ("Content-Type" :> "application/json")]

\* c.withHeaders(additionalHeaders):
\* createHttpClient({ ...options, headers: { ...defaultHeaders, ...additionalHeaders } })
WithHeaders(c, additionalHeaders) ==
  CreateHttpClient(("headers" :> (additionalHeaders @@ c.defaultHeaders)) @@ c.options)

\* request(url, fetchOptions): what fetch is called with
Request(c, url, fetchOptions) ==
  [url |-> IF StartsWith(url, <<"http">>) THEN url ELSE c.baseUrl \o url,
   method |-> fetchOptions.method,
   headers |-> fetchOptions.headers @@ c.defaultHeaders]

\* requestJson's handling of the response
RequestJson(response) ==
  IF ~response.ok THEN [threw |-> TRUE, status |-> response.status, body |-> "none"]
  ELSE IF response.contentType = "application/json"
    THEN [threw |-> FALSE, status |-> response.status, body |-> "json"]
    ELSE [threw |-> FALSE, status |-> response.status, body |-> "text"]

HttpInit ==
  /\ serviceApiKey = ApiKey
  /\ serviceName = ServiceName
  /\ authEndpoint = Endpoint
  /\ accessToken = Null
  /\ refreshToken = Null
  /\ accessTokenExpiry = Null
  /\ refreshing = Null
  /\ now = 1
  /\ task = [p \in Procs |-> NoTask]
  /\ proc = [p \in Procs |-> IdleProc]
  /\ opSeq = 0
  /\ tokVia = "none"
  /\ clearedAt = 0
  /\ ev = NoEv
  /\ jwtSecret = [a \in Auths |-> Absent]
  /\ middleware = NoMiddleware
  /\ envSecret = Absent
  /\ issued = {}
  /\ httpClient = NoClients
  /\ batchRun = IdleRun

\* client = createHttpClient(options)
createHttpClient(options) ==
  /\ httpClient' = [httpClient EXCEPT !["client"] = CreateHttpClient(options)]
  /\ ev' = [type |-> "createHttpClient", options |-> options]
  /\ UNCHANGED <<client, authority, now, opSeq, batchRun>>

\* newClient = client.withHeaders(additionalHeaders)
withHeaders(additionalHeaders) ==
  /\ httpClient["client"].made
  /\ httpClient' = [httpClient EXCEPT
                      !["newClient"] = WithHeaders(httpClient["client"], additionalHeaders)]
  /\ ev' = [type |-> "withHeaders", additionalHeaders |-> additionalHeaders,
            defaultHeaders |-> httpClient["client"].defaultHeaders]
  /\ UNCHANGED <<client, authority, now, opSeq, batchRun>>

\* c.fetch(url, fetchOptions): the raw request
fetch(c, url, headers) ==
  /\ httpClient[c].made
  /\ ev' = [type |-> "fetch", c |-> c, fetchHeaders |-> headers,
            sent |-> Request(httpClient[c], url, [method |-> "OPTIONS", headers |-> headers])]
  /\ UNCHANGED <<client, authority, now, opSeq, helpers>>

\* c.get(url, options): requestJson(url, { ...options, method: 'GET' })
get(c, url, headers, response) ==
  /\ httpClient[c].made
  /\ ev' = [type |-> "get", c |-> c, fetchHeaders |-> headers,
            sent |-> Request(httpClient[c], url, [method |-> "GET", headers |-> headers]),
            result |-> RequestJson(response)]
  /\ UNCHANGED <<client, authority, now, opSeq, helpers>>

HttpNext ==
  \/ \E options \in HttpClientOptions : createHttpClient(options)
  \/ \E additionalHeaders \in AdditionalHeaders : withHeaders(additionalHeaders)
  \/ \E c \in ClientSlots, url \in Urls, headers \in FetchHeaders : fetch(c, url, headers)
  \/ \E c \in ClientSlots, url \in Urls, headers \in FetchHeaders, response \in Responses :
       get(c, url, headers, response)

HttpSpec == HttpInit /\ [][HttpNext]_vars

\* ------------------------------------------------------------- batch operations
MaxItems == 3          \* records / updates / ids passed to one call
MaxRetries == 2        \* largest options.maxRetries a caller passes

DEFAULT_RETRY_CONFIG ==
  [maxRetries |-> 3, initialDelayMs |-> 100, maxDelayMs |-> 5000, backoffMultiplier |-> 2]

BatchFns == {"batchInsert", "batchUpsert", "batchDelete", "batchUpdate"}
BatchSizes == {1, 2}
NoOptions == [k \in {} |-> 0]                 \* withRetry(operation)
\* options.retry of a batch call; withRetry also sees a low maxDelayMs
RetryOptions == {[maxRetries |-> m] : m \in 0..MaxRetries}
WithRetryOptions ==
  RetryOptions \cup {[maxRetries |-> m, maxDelayMs |-> 150] : m \in 0..MaxRetries}
               \cup {NoOptions}
ItemIds == <<"1", "2", "3", "4", "5">>
\* records to insert or upsert, ids to delete
Records(n) == [k \in 1..n |-> [id |-> ItemIds[k]]]
Ids(n) == [k \in 1..n |-> ItemIds[k]]
\* updates: each has id and data, or lacks one of them
UpdatesOf(n) ==
  {u \in [1..n -> [id : {Absent} \cup {ItemIds[k] : k \in 1..n}, data : {Absent, "data"}]] :
     \A k \in 1..n : /\ u[k].id \in {Absent, ItemIds[k]}
                     /\ (u[k].id = Absent => u[k].data # Absent)}
NoDbError == <<>>

Min(a, b) == IF a < b THEN a ELSE b

RECURSIVE Pow(_, _)
Pow(b, e) == IF e = 0 THEN 1 ELSE b * Pow(b, e - 1)

\* calculateDelay(attempt, cfg)
CalculateDelay(attempt, cfg) ==
  LET delay == cfg.initialDelayMs * Pow(cfg.backoffMultiplier, attempt) IN
  Min(delay, cfg.maxDelayMs)

\* chunk(array, size): for (i = 0; i < array.length; i += size) push slice(i, i + size)
RECURSIVE ChunkFrom(_, _, _)
ChunkFrom(array, size, i) ==
  IF i < Len(array)
  THEN <<SubSeq(array, i + 1, Min(i + size, Len(array)))>> \o ChunkFrom(array, size, i + size)
  ELSE <<>>
Chunk(array, size) == ChunkFrom(array, size, 0)

\* addTimestamps(record), the default preparation of insert and upsert
AddTimestamps(record, t) == [id |-> record.id, created_at |-> t, updated_at |-> t]

\* withRetry's config: { ...DEFAULT_RETRY_CONFIG, ...options }
RetryConfig(options) == options @@ DEFAULT_RETRY_CONFIG

\* withRetry's catch block at `attempt`: sleep and go round again, or leave
\* the loop and throw lastError
WithRetryCatchOneFewer(cfg, attempt) ==
  IF attempt + 1 < cfg.maxRetries
  THEN [next |-> "sleep", delay |-> CalculateDelay(attempt, cfg)]
  ELSE [next |-> "throw", delay |-> 0]
WithRetryCatch(cfg, attempt) ==
  IF attempt < cfg.maxRetries
  THEN [next |-> "sleep", delay |-> CalculateDelay(attempt, cfg)]
  ELSE [next |-> "throw", delay |-> 0]

\* the name of the success counter in each function's result
CountField(fn) ==
  CASE fn = "batchInsert" -> "inserted"
    [] fn = "batchUpsert" -> "upserted"
    [] fn = "batchDelete" -> "deleted"
    [] OTHER -> "updated"
HasData(fn) == fn \in {"batchInsert", "batchUpsert"}

\* the early return for an empty (or non-array) input
EmptyResult(fn) ==
  ("success" :> TRUE) @@ (CountField(fn) :> 0) @@ ("failed" :> 0) @@ ("batches" :> 0)
  @@ (IF HasData(fn) THEN ("data" :> <<>>) ELSE NoHeaders)
\* const results = { success: true, ..., batches: batches.length, errors: [] }
FreshResults(fn, batches) ==
  ("success" :> TRUE) @@ (CountField(fn) :> 0) @@ ("failed" :> 0)
  @@ ("batches" :> Len(batches)) @@ ("errors" :> <<>>)
  @@ (IF HasData(fn) THEN ("data" :> <<>>) ELSE NoHeaders)

RECURSIVE Flatten(_)
Flatten(seqs) == IF seqs = <<>> THEN <<>> ELSE Head(seqs) \o Flatten(Tail(seqs))

\* what the loops visit, in order: the batches, or for batchUpdate the
\* updates of the first batch, then those of the second, ...
Units(fn, batches) == IF fn = "batchUpdate" THEN Flatten(batches) ELSE batches
Unit(run) == run.units[run.i]
UnitSize(run) == IF run.fn = "batchUpdate" THEN 1 ELSE Len(Unit(run))
\* the next iteration of the loop(s)
AdvanceStopsOnFailure(run) ==
  IF ~run.results["success"] THEN [run EXCEPT !.i = Len(run.units) + 1]
  ELSE [run EXCEPT !.i = @ + 1]
Advance(run) == [run EXCEPT !.i = @ + 1]

\* the error the database reports for invocation `attempt` on unit i: every
\* invocation fails with an error of its own
DbError(run) == [message |-> <<"db error", run.i, run.attempt>>]

\* the entry of results.errors for a unit whose withRetry threw
ErrorEntry(run, error) ==
  CASE run.fn = "batchUpdate" -> [id |-> Unit(run).id, error |-> error.message]
    [] run.fn = "batchDelete" ->
         [batchIndex |-> run.i - 1, idCount |-> UnitSize(run), error |-> error.message]
    [] OTHER ->
         [batchIndex |-> run.i - 1, recordCount |-> UnitSize(run), error |-> error.message]

\* withRetry(operation) begins: attempt = 0 and the operation is invoked
StartRetry(run) ==
  [run EXCEPT !.state = "calling", !.attempt = 0, !.tries = <<>>, !.sleeps = <<>>,
              !.lastError = NoDbError, !.dbCalls = @ + 1,
              !.attempted = Append(@, Unit(run))]

\* batchUpdate: if (!id || !data)
MissingIdOrData(run, k) ==
  run.fn = "batchUpdate" /\ (Falsy(run.units[k].id) \/ Falsy(run.units[k].data))

\* the synchronous code from the head of the loop to the next await: every
\* batchUpdate entry without id or data met on the way is counted as failed
\* and skipped (continue); the function returns when the loop is over, and
\* any other unit goes to withRetry
Enter(run) ==
  LET last == Len(run.units)
      stops == {k \in run.i..(last + 1) : k = last + 1 \/ ~MissingIdOrData(run, k)}
      q == CHOOSE k \in stops : \A x \in stops : k <= x
      skipped == [k \in 1..(q - run.i) |->
                    [id |-> run.units[run.i + k - 1].id, error |-> "Missing id or data"]]
      counted == [run EXCEPT !.i = q,
                             !.results = [@ EXCEPT !["failed"] = @ + Len(skipped),
                                                   !["errors"] = @ \o skipped]]
  IN IF q > last THEN [counted EXCEPT !.state = "done"] ELSE StartRetry(counted)

\* the body of the loop after withRetry settled for the current unit
AfterRetry(run, ok, result, error) ==
  IF ok
  THEN [run EXCEPT
          !.results = [@ EXCEPT ![CountField(run.fn)] = @ + UnitSize(run)]
                      @@ IF HasData(run.fn) /\ run.returnData
                         THEN ("data" :> run.results["data"] \o result) ELSE NoHeaders]
  ELSE [run EXCEPT
          !.results = [@ EXCEPT !["success"] = FALSE,
                                !["failed"] = @ + UnitSize(run),
                                !["errors"] = Append(@, ErrorEntry(run, error))]]

\* a call of one of the four batch functions up to its first await
BatchCall(fn, items, batchSize, returnData, retry, t) ==
  IF Len(items) = 0
  THEN [state |-> "done", fn |-> fn, items |-> items, results |-> EmptyResult(fn),
        dbCalls |-> 0, attempted |-> <<>>, batchSize |-> batchSize]
  ELSE LET prepared == IF HasData(fn) THEN [k \in 1..Len(items) |-> AddTimestamps(items[k], t)]
                       ELSE items
           batches == Chunk(prepared, batchSize)
       IN Enter([state |-> "calling", fn |-> fn, items |-> prepared, batchSize |-> batchSize,
                 returnData |-> returnData, config |-> RetryConfig(retry),
                 batches |-> batches, units |-> Units(fn, batches), i |-> 1,
                 attempt |-> 0, tries |-> <<>>, sleeps |-> <<>>, lastError |-> NoDbError,
                 settled |-> [config |-> RetryConfig(retry), tries |-> <<>>, sleeps |-> <<>>,
                              threw |-> FALSE, value |-> <<>>, error |-> NoDbError],
                 dbCalls |-> 0, attempted |-> <<>>,
                 results |-> FreshResults(fn, batches)])

BatchInit ==
  /\ serviceApiKey = ApiKey
  /\ serviceName = ServiceName
  /\ authEndpoint = Endpoint
  /\ accessToken = Null
  /\ refreshToken = Null
  /\ accessTokenExpiry = Null
  /\ refreshing = Null
  /\ now = 1
  /\ task = [p \in Procs |-> NoTask]
  /\ proc = [p \in Procs |-> IdleProc]
  /\ opSeq = 0
  /\ tokVia = "none"
  /\ clearedAt = 0
  /\ ev = NoEv
  /\ jwtSecret = [a \in Auths |-> Absent]
  /\ middleware = NoMiddleware
  /\ envSecret = Absent
  /\ issued = {}
  /\ httpClient = NoClients
  /\ batchRun = IdleRun

\* what the batch steps leave alone
others == <<client, authority, now, opSeq, ev, httpClient>>

\* withRetry(operation, options), called on its own
withRetry(options) ==
  /\ batchRun.state = "idle"
  /\ batchRun' = [state |-> "calling", fn |-> "withRetry", config |-> RetryConfig(options),
                  i |-> 1,
                  attempt |-> 0, tries |-> <<>>, sleeps |-> <<>>, lastError |-> NoDbError,
                  settled |-> [config |-> RetryConfig(options), tries |-> <<>>,
                               sleeps |-> <<>>, threw |-> FALSE, value |-> <<>>,
                               error |-> NoDbError],
                  dbCalls |-> 1]
  /\ UNCHANGED others

\* batchInsert(supabase, table, records, { batchSize, returnData, retry })
batchInsert(n, batchSize, returnData, retry) ==
  /\ batchRun.state = "idle"
  /\ batchRun' = BatchCall("batchInsert", Records(n), batchSize, returnData, retry, now)
  /\ UNCHANGED others

\* batchUpsert(supabase, table, records, { batchSize, returnData, retry })
batchUpsert(n, batchSize, returnData, retry) ==
  /\ batchRun.state = "idle"
  /\ batchRun' = BatchCall("batchUpsert", Records(n), batchSize, returnData, retry, now)
  /\ UNCHANGED others

\* batchDelete(supabase, table, ids, { batchSize, retry })
batchDelete(n, batchSize, retry) ==
  /\ batchRun.state = "idle"
  /\ batchRun' = BatchCall("batchDelete", Ids(n), batchSize, FALSE, retry, now)
  /\ UNCHANGED others

\* batchUpdate(supabase, table, updates, { batchSize, retry })
batchUpdate(updates, batchSize, retry) ==
  /\ batchRun.state = "idle"
  /\ batchRun' = BatchCall("batchUpdate", updates, batchSize, FALSE, retry, now)
  /\ UNCHANGED others

\* the awaited operation settles: it resolves (for a database call, with
\* error null) or it fails; withRetry returns, sleeps, or throws lastError,
\* and the caller's loop runs on to its next await
operationSettles(ok) ==
  /\ batchRun.state = "calling"
  /\ LET run == batchRun
         error == DbError(run)
         tries == Append(run.tries, ok)
         c == WithRetryCatch(run.config, run.attempt)
         value == IF run.fn = "withRetry" THEN <<"result">>
                  ELSE IF HasData(run.fn) /\ run.returnData THEN Unit(run) ELSE <<>>
         settled == [config |-> run.config, tries |-> tries, sleeps |-> run.sleeps,
                     threw |-> ~ok, value |-> IF ok THEN value ELSE <<>>,
                     error |-> IF ok THEN NoDbError ELSE error]
     IN batchRun' =
          IF ~ok /\ c.next = "sleep"
          THEN [run EXCEPT !.state = "sleeping", !.tries = tries, !.lastError = error,
                           !.sleeps = Append(@, c.delay)]
          ELSE IF run.fn = "withRetry"
          THEN [run EXCEPT !.state = "done", !.tries = tries, !.settled = settled,
                           !.lastError = settled.error]
          ELSE Enter(Advance(AfterRetry([run EXCEPT !.tries = tries, !.settled = settled,
                                                    !.lastError = settled.error],
                                        ok, value, error)))
  /\ UNCHANGED others

\* the timer of sleep(delay) fires: attempt++ and the operation is invoked again
sleep ==
  /\ batchRun.state = "sleeping"
  /\ batchRun' = [batchRun EXCEPT !.state = "calling", !.attempt = @ + 1, !.dbCalls = @ + 1]
  /\ UNCHANGED others

BatchNext ==
  \/ \E options \in WithRetryOptions : withRetry(options)
  \/ \E n \in 0..MaxItems, b \in BatchSizes, returnData \in BOOLEAN, retry \in RetryOptions :
       batchInsert(n, b, returnData, retry)
  \/ \E n \in 0..MaxItems, b \in BatchSizes, returnData \in BOOLEAN, retry \in RetryOptions :
       batchUpsert(n, b, returnData, retry)
  \/ \E n \in 0..MaxItems, b \in BatchSizes, retry \in RetryOptions :
       batchDelete(n, b, retry)
  \/ \E n \in 0..MaxItems, b \in BatchSizes, retry \in RetryOptions :
       \E updates \in UpdatesOf(n) : batchUpdate(updates, b, retry)
  \/ \E ok \in BOOLEAN : operationSettles(ok)
  \/ sleep

BatchSpec == BatchInit /\ [][BatchNext]_vars

\* every pending operation settles and every timer fires
BatchFairSpec ==
  BatchSpec /\ WF_vars(\E ok \in BOOLEAN : operationSettles(ok)) /\ WF_vars(sleep)

\* ------------------------------------------------------------- claims
\* The renewals (refresh() chains started by getValidToken) not yet settled.
RenewalsInFlight == {p \in Procs : task[p].via = "gvt" /\ task[p].st # "none"}

Shapes == {<<>>, <<"token">>, <<"refresh">>, <<"refresh", "token">>}

\* C1: at most one renewal started by getValidToken() is in flight at any
\* moment; every caller suspended in getValidToken() awaits that one pending
\* renewal, and a caller that needs a token while a renewal is in flight
\* awaits it, starts no chain and makes no transport call of its own.
C1_SingleFlight ==
  /\ Cardinality(RenewalsInFlight) <= 1
  /\ \A q \in Procs : proc[q].pc = "awaitRenewal" =>
        /\ proc[q].aw = refreshing
        /\ refreshing \in RenewalsInFlight
  /\ (ev.type = "gvt" /\ ev.path # "cached" /\ ev.marker # Null) =>
        /\ ev.path = "joined"
        /\ ev.posts = <<>>
        /\ proc[ev.p].aw = ev.marker
        /\ task[ev.p].st = "none"

\* C1 witness: a second caller has just joined the renewal the first started.
C1_Witness ==
  /\ ev.type = "gvt"
  /\ ev.path = "joined"
  /\ refreshing # Null
  /\ Cardinality(Awaiters(refreshing)) >= 2
  /\ task[refreshing].st \in {"waitRefresh", "waitToken"}

\* C2 as stated: the concurrent getValidToken() calls served by one successful
\* renewal cost exactly one call to the auth transport, and all of them
\* resolve to the same access token.
C2_ExactlyOneTransportCall ==
  (ev.type = "settled" /\ ev.st = "resolved") =>
     /\ Len(ev.calls) = 1
     /\ \A q, r \in ev.resumed : ev.ret[q] = ev.ret[r]

\* C2 amended: the concurrent getValidToken() calls that need a token share
\* exactly one renewal; that renewal makes one call to the auth transport
\* (the token call with no refresh token held, the refresh call with one
\* that is accepted) or two, refresh then token, when the held refresh token
\* is rejected; when it succeeds all the calls resolve to the same value,
\* and none of them is left waiting.
C2_SingleRenewal ==
  /\ \A q, r \in Procs :
        (proc[q].pc = "awaitRenewal" /\ proc[r].pc = "awaitRenewal") =>
           proc[q].aw = proc[r].aw
  /\ ev.type = "settled" =>
        /\ ev.calls \in Shapes
        /\ \A q \in Procs : proc[q].pc # "awaitRenewal"
        /\ ev.p \in ev.resumed
        /\ ev.st = "resolved" =>
              /\ ev.calls # <<>>
              /\ Len(ev.calls) = 2 <=> ev.answers[1] = "notok"
              /\ \A q, r \in ev.resumed : ev.ret[q] = ev.ret[r]

\* C2 witness: two concurrent callers resumed from one successful renewal.
C2_Witness ==
  /\ ev.type = "settled"
  /\ ev.st = "resolved"
  /\ Cardinality(ev.resumed) >= 2
  /\ \A q \in ev.resumed : ev.ret[q] # Null

\* C3: the marker is cleared when a renewal settles, whether it succeeded or
\* failed; the marker never names a settled renewal, nobody awaits a settled
\* renewal, and a call that needs a token with no renewal pending starts one.
C3_MarkerCleared ==
  /\ ev.type = "settled" => refreshing = Null
  /\ refreshing # Null => refreshing \in RenewalsInFlight
  /\ \A q \in Procs : proc[q].pc = "awaitRenewal" => proc[q].aw \in RenewalsInFlight
  /\ (ev.type = "gvt" /\ ev.path # "cached" /\ ev.marker = Null) =>
        /\ ev.path = "started"
        /\ refreshing = ev.p

\* C3 witness: a renewal has just settled with a failure and the marker is null.
C3_Witness ==
  /\ ev.type = "settled"
  /\ ev.st = "rejected"
  /\ ev.calls # <<>>
  /\ refreshing = Null

\* C4 as stated: whatever calls interleave on the client, the access token
\* stored by a renewal is never overwritten by the result of an attempt that
\* started before that renewal did (no successful refresh is clobbered by
\* another caller's stale attempt).
C4_NoStaleOverwrite ==
  (ev.type = "done" /\ ev.outcome = "resolved" /\ ev.overStart # Null
     /\ ev.overVia = "gvt") =>
     ev.overStart < ev.start

\* C4 amended: a renewal started by getValidToken() (directly or through
\* request()) never overwrites the access token stored by a renewal started
\* by getValidToken() after it.  Direct authenticate() / refresh() calls are
\* not coalesced, and a stale one does overwrite a newer token.
C4_RenewalsNeverClobber ==
  (ev.type = "done" /\ ev.outcome = "resolved" /\ ev.via = "gvt"
     /\ ev.overStart # Null /\ ev.overVia = "gvt") =>
     ev.overStart < ev.start

\* C4 witness: a renewal stores over the token of an earlier renewal.
C4_Witness ==
  /\ ev.type = "done"
  /\ ev.outcome = "resolved"
  /\ ev.via = "gvt"
  /\ ev.overVia = "gvt"
  /\ ev.overStart # Null
  /\ accessToken = ev.start

\* C5: request() never calls the target with a null access token, and when
\* the renewal it awaited failed it does not call the target at all.
C5_NeverNullToken ==
  /\ (ev.type = "gvt" /\ ev.called) => ev.ret # Null
  /\ ev.type = "settled" => \A q \in ev.called : ev.ret[q] # Null
  /\ (ev.type = "settled" /\ ev.st = "rejected") => ev.called = {}

\* C6: getValidToken() goes for a renewal (starting one, or awaiting the one
\* in flight) exactly when accessToken is null, or accessTokenExpiry is null,
\* or now > accessTokenExpiry - 60000; otherwise, now = accessTokenExpiry -
\* 60000 included, it returns the cached token with no chain started and no
\* transport call.
C6_NeedsRefreshExactly ==
  ev.type = "gvt" =>
     LET needs == \/ ev.seen.accessToken = Null
                  \/ ev.seen.accessTokenExpiry = Null
                  \/ ev.seen.now > ev.seen.accessTokenExpiry - 60000
     IN /\ needs <=> ev.path \in {"started", "joined"}
        /\ (needs /\ ev.marker = Null) => ev.path = "started"
        /\ ~needs =>
              /\ ev.path = "cached"
              /\ ev.ret = ev.seen.accessToken
              /\ ev.posts = <<>>
              /\ task[ev.p].st = "none"
              /\ refreshing = ev.marker

\* C6 witness: a call exactly at the margin returns the cached token.
C6_Witness ==
  /\ ev.type = "gvt"
  /\ ev.path = "cached"
  /\ ev.seen.now = ev.seen.accessTokenExpiry - 60000
  /\ ev.ret # Null

\* C7: a refresh() whose refresh token the server rejects makes exactly one
\* call to the refresh endpoint, then exactly one to the token endpoint, and
\* when that one is answered the client holds the access token, refresh
\* token and expiry of its answer.
C7_FallbackOnDeadRefresh ==
  (ev.type = "done" /\ ev.entry = "refresh" /\ ev.held /\ ev.answers # <<>>
     /\ ev.answers[1] = "notok") =>
     /\ ev.calls = <<"refresh", "token">>
     /\ Len(ev.answers) = 2
     /\ ev.answers[2] = "ok" =>
           /\ ev.outcome = "resolved"
           /\ accessToken = ev.data.accessToken
           /\ refreshToken = ev.data.refreshToken
           /\ accessTokenExpiry = ev.t + (ev.data.expiresIn * 1000)

\* C7 witness: such a refresh() has just completed with a fresh pair.
C7_Witness ==
  /\ ev.type = "done"
  /\ ev.entry = "refresh"
  /\ ev.held
  /\ ev.answers = <<"notok", "ok">>
  /\ ev.before.refreshToken = Null
  /\ refreshToken # Null

\* C8: a refresh() makes at most one refresh call and at most one token
\* call: with no refresh token held only the token call; with one held the
\* refresh call first, and the token call only after the refresh call was
\* rejected; if that authenticate() fails too, refresh() fails with no
\* further call.
C8_OneFallbackOnly ==
  /\ \A p \in Procs : task[p].calls \in Shapes
  /\ \A p \in Procs : (task[p].st # "none" /\ authEndpoint # NoEndpoint) =>
        task[p].calls[1] = (IF task[p].entry = "refresh" /\ task[p].held
                            THEN "refresh" ELSE "token")
  /\ (ev.type = "done" /\ ev.entry = "refresh") =>
        /\ ev.calls \in Shapes
        /\ Len(ev.answers) = Len(ev.calls)
        /\ ~ev.held => ev.calls \in {<<>>, <<"token">>}
        /\ (~ev.held /\ authEndpoint # NoEndpoint) => ev.calls = <<"token">>
        /\ (ev.held /\ authEndpoint # NoEndpoint) => ev.calls[1] = "refresh"
        /\ Len(ev.calls) = 2 <=> (ev.held /\ ev.answers # <<>> /\ ev.answers[1] = "notok")
        /\ (ev.answers = <<>> \/ ev.answers[Len(ev.answers)] # "ok") <=>
              ev.outcome = "rejected"

\* C8 witness: the refresh was rejected and the fallback authenticate() failed.
C8_Witness ==
  /\ ev.type = "done"
  /\ ev.entry = "refresh"
  /\ ev.answers = <<"notok", "notok">>
  /\ ev.outcome = "rejected"

\* C9: a refresh() answered ok by the refresh endpoint assigns accessToken and
\* accessTokenExpiry = now + expiresIn*1000 and nothing else: refreshToken and
\* the marker are as they were.
C9_RefreshKeepsRefreshToken ==
  (ev.type = "done" /\ ev.outcome = "resolved" /\ ev.calls = <<"refresh">>) =>
     /\ accessToken = ev.data.accessToken
     /\ accessTokenExpiry = ev.t + (ev.data.expiresIn * 1000)
     /\ refreshToken = ev.before.refreshToken
     /\ refreshing = ev.marker
     /\ ev.ret = <<accessToken, Null>>

\* C9 witness: a successful refresh has just replaced the access token.
C9_Witness ==
  /\ ev.type = "done"
  /\ ev.outcome = "resolved"
  /\ ev.calls = <<"refresh">>
  /\ ev.before.accessToken # accessToken
  /\ ev.before.refreshToken # Null

\* C10: an authenticate() answered ok stores accessToken, refreshToken and
\* accessTokenExpiry = now + expiresIn*1000 from the answer and returns the
\* stored pair; every authenticate() on a client with an auth endpoint POSTs
\* to the token endpoint, whatever credentials are cached.
C10_AuthenticateStores ==
  /\ (ev.type = "done" /\ ev.outcome = "resolved"
        /\ ev.calls[Len(ev.calls)] = "token") =>
        /\ accessToken = ev.data.accessToken
        /\ refreshToken = ev.data.refreshToken
        /\ accessTokenExpiry = ev.t + (ev.data.expiresIn * 1000)
        /\ ev.ret = <<accessToken, refreshToken>>
  /\ (ev.type = "call" /\ ev.entry = "authenticate") =>
        /\ ev.calls = <<"token">>
        /\ task[ev.p].st = "waitToken"
  /\ (ev.type = "done" /\ ev.entry = "authenticate" /\ authEndpoint # NoEndpoint) =>
        /\ ev.calls = <<"token">>
        /\ Len(ev.answers) = 1

\* C10 witness: authenticate() has just replaced credentials that were cached.
C10_Witness ==
  /\ ev.type = "done"
  /\ ev.entry = "authenticate"
  /\ ev.outcome = "resolved"
  /\ ev.before.accessToken # Null
  /\ ev.before.refreshToken # Null
  /\ accessToken # ev.before.accessToken

\* C11: an authenticate() whose token call is answered with a non-success
\* response rejects with an Error whose message is "S2S authentication failed"
\* followed by the body text of the answer, and neither its start nor its
\* rejection assigns accessToken, refreshToken or accessTokenExpiry.
C11_AuthenticateFailure ==
  /\ (ev.type = "call" /\ ev.entry = "authenticate") => CurCred = ev.before
  /\ (ev.type = "done" /\ ev.answers # <<>> /\ ev.calls[Len(ev.calls)] = "token"
        /\ ev.answers[Len(ev.answers)] = "notok") =>
        /\ ev.outcome = "rejected"
        /\ ev.ret = <<Null, Null>>
        /\ Len(ev.err) >= 2
        /\ ev.err[1] = "S2S authentication failed"
        /\ ev.err[Len(ev.err)] = ev.data.text
        /\ CurCred = ev.before

\* C11 witness: an authenticate() on a client holding credentials has just
\* been refused with a body text, and the credentials are still held.
C11_Witness ==
  /\ ev.type = "done"
  /\ ev.entry = "authenticate"
  /\ ev.answers = <<"notok">>
  /\ ev.data.text # ""
  /\ ev.err = <<"S2S authentication failed", ": ", ev.data.text>>
  /\ accessToken # Null
  /\ refreshToken # Null
  /\ accessTokenExpiry # Null

\* The names of the two headers request() sets itself.
OwnHeaders == {"Authorization", "X-Service-Name"}

\* The headers of a target call are the caller's, with the client's two on top.
HeadersAsClaimed(sent, opts, token) ==
  /\ DOMAIN sent = DOMAIN opts \cup OwnHeaders
  /\ sent["Authorization"] = <<"Bearer ", token>>
  /\ sent["X-Service-Name"] = serviceName
  /\ \A h \in DOMAIN opts \ OwnHeaders : sent[h] = opts[h]

\* C12 as stated: every request() call reaches the target exactly once, with
\* the client's Authorization and X-Service-Name over the caller's headers.
C12_EveryRequestCallsTarget ==
  /\ (ev.type = "gvt" /\ ev.op = "request" /\ ev.path = "cached") =>
        /\ ev.called
        /\ HeadersAsClaimed(ev.sent, ev.opts, ev.ret)
  /\ ev.type = "settled" =>
        /\ ev.called = ev.requests
        /\ \A q \in ev.called : HeadersAsClaimed(ev.sent[q], ev.opts[q], ev.ret[q])
  /\ ev.type = "target" => (proc[ev.p].pc = "idle" /\ ev.ret = ev.status)

\* C12 amended: a request() whose getValidToken() resolves calls the target
\* exactly once, whatever status it answers (the response is returned as it
\* is, with no second call), with Authorization: Bearer <the token
\* getValidToken() returned> and X-Service-Name: <serviceName>; the caller's
\* other headers are passed unchanged and for these two names the client's
\* values win.  A request() whose getValidToken() rejects does not call the
\* target.
C12_RequestCallsTargetOnce ==
  /\ (ev.type = "gvt" /\ ev.op = "request" /\ ev.path = "cached") =>
        /\ ev.called
        /\ proc[ev.p].pc = "waitTarget"
        /\ HeadersAsClaimed(ev.sent, ev.opts, ev.ret)
  /\ (ev.type = "gvt" /\ ev.path # "cached") => ~ev.called
  /\ ev.type = "settled" =>
        /\ ev.called = (IF ev.st = "resolved" THEN ev.requests ELSE {})
        /\ \A q \in ev.called :
              /\ proc[q].pc = "waitTarget"
              /\ HeadersAsClaimed(ev.sent[q], ev.opts[q], ev.ret[q])
        /\ \A q \in ev.requests \ ev.called : proc[q].pc = "idle"
  /\ ev.type = "target" => (proc[ev.p].pc = "idle" /\ ev.ret = ev.status)

\* C12 witness: a request() whose caller passed its own Authorization and
\* X-Service-Name has called the target with the client's values, and the
\* caller's X-Trace is there unchanged.
C12_Witness ==
  /\ ev.type = "settled"
  /\ ev.st = "resolved"
  /\ \E q \in ev.called :
        /\ OwnHeaders \subseteq DOMAIN ev.opts[q]
        /\ ev.opts[q]["Authorization"] = <<"Basic ", "abc">>
        /\ ev.opts[q]["X-Service-Name"] = "spoof"
        /\ ev.sent[q]["Authorization"] = <<"Bearer ", accessToken>>
        /\ ev.sent[q]["X-Service-Name"] = ServiceName
        /\ ev.sent[q]["X-Trace"] = "t1"
        /\ accessToken # Null

\* C13: clearTokens() sets accessToken, refreshToken and accessTokenExpiry to
\* null, starts no chain and makes no transport call (the calls in flight are
\* as they were), and leaves serviceApiKey, serviceName, authEndpoint and the
\* renewal marker unchanged.
C13_ClearTokensFrame ==
  ev.type = "clear" =>
     /\ accessToken = Null
     /\ refreshToken = Null
     /\ accessTokenExpiry = Null
     /\ serviceApiKey = ev.this.serviceApiKey
     /\ serviceName = ev.this.serviceName
     /\ authEndpoint = ev.this.authEndpoint
     /\ refreshing = ev.this.refreshing
     /\ task = ev.tasks
     /\ proc = ev.procs

\* C13 witness: clearTokens() has just dropped a stored token while the
\* renewal that stored it is still marked in flight.
C13_Witness ==
  /\ ev.type = "clear"
  /\ ev.this.accessToken # Null
  /\ ev.this.accessTokenExpiry # Null
  /\ ev.this.refreshing # Null
  /\ refreshing = ev.this.refreshing
  /\ accessToken = Null

\* C14: missing configuration is fatal at construction and leaves no object:
\* new S2SClient throws 'SERVICE_API_KEY is required ...' when serviceApiKey
\* is absent, whatever serviceName is, and 'SERVICE_NAME is required ...' when
\* only serviceName is absent, with no transport call; new S2STokenGenerator
\* and createS2SAuthMiddleware throw an Error whose message begins with
\* 'S2S_JWT_SECRET is required' when neither the argument nor the environment
\* supplies a secret; what was there before the failed construction is kept,
\* and no object ever holds an empty secret, key or name.
C14_ConfigIsFatal ==
  /\ ev.type = "newClient" =>
        /\ Falsy(ev.options.serviceApiKey) =>
              /\ ev.threw
              /\ ev.error = <<"SERVICE_API_KEY is required for S2S authentication">>
        /\ (~Falsy(ev.options.serviceApiKey) /\ Falsy(ev.options.serviceName)) =>
              /\ ev.threw
              /\ ev.error = <<"SERVICE_NAME is required for S2S authentication">>
        /\ ev.threw => This = ev.before
        /\ task = ev.tasks
        /\ \A p \in Procs : task[p].calls = <<>>
  /\ ev.type = "newGenerator" =>
        /\ (Falsy(ev.arg) /\ Falsy(ev.env)) =>
              /\ ev.threw
              /\ ev.error = <<"S2S_JWT_SECRET is required">>
        /\ ev.threw => jwtSecret = ev.before
  /\ ev.type = "newMiddleware" =>
        /\ (Falsy(ev.options.jwtSecret) /\ Falsy(ev.env)) =>
              /\ ev.threw
              /\ ev.error[1] = "S2S_JWT_SECRET is required"
        /\ ev.threw => middleware = ev.before
  /\ \A a \in Auths : jwtSecret[a] # ""
  /\ middleware.jwtSecret # ""
  /\ serviceApiKey # ""
  /\ serviceApiKey = Absent <=> serviceName = Absent

\* C14 witness: new S2SClient with neither serviceApiKey nor serviceName has
\* thrown the serviceApiKey error and there is no client.
C14_Witness ==
  /\ ev.type = "newClient"
  /\ ev.options.serviceApiKey = Absent
  /\ ev.options.serviceName = Absent
  /\ ev.threw
  /\ ev.error = <<"SERVICE_API_KEY is required for S2S authentication">>
  /\ serviceApiKey = Absent

\* The seconds since the token was issued, on the clock jwt reads.
Age(token, t) == (t \div 1000) - token.iat

\* C15: for any service name S the tokens generateTokens(S) returns verify,
\* at the authority that signed them and at every instant before their
\* lifetime (900 s, 86400 s) has elapsed, as valid with payload.type 'access'
\* (resp. 'refresh') and payload.service = S as it was passed.
C15_GenerateVerifyRoundTrip ==
  /\ ev.type = "generate" =>
        \A t \in AuthTimes : t >= ev.t =>
           LET va == VerifyToken(jwtSecret[ev.a], ev.result.accessToken, t)
               vr == VerifyToken(jwtSecret[ev.a], ev.result.refreshToken, t)
           IN /\ (t \div 1000) - (ev.t \div 1000) < 900 =>
                    (va.valid /\ va.payload.type = "access"
                       /\ va.payload.service = ev.name)
              /\ (t \div 1000) - (ev.t \div 1000) < 86400 =>
                    (vr.valid /\ vr.payload.type = "refresh"
                       /\ vr.payload.service = ev.name)
  /\ (ev.type = "verify" /\ ev.token \in issued /\ ev.token.sig = jwtSecret[ev.a]
        /\ Age(ev.token, ev.t) < (IF ev.token.type = "access" THEN 900 ELSE 86400)) =>
        /\ ev.result.valid
        /\ ev.result.payload.type = ev.token.type
        /\ ev.result.payload.service = ev.token.service
        /\ ev.result.payload.service \in ServiceNames

\* C15 witness: a refresh token generated for 'Billing ' has been verified
\* after the access token's lifetime, with the service name as passed.
C15_Witness ==
  /\ ev.type = "verify"
  /\ ev.token \in issued
  /\ ev.result.valid
  /\ ev.result.payload.type = "refresh"
  /\ ev.result.payload.service = "Billing "
  /\ Age(ev.token, ev.t) >= 900

\* C16 as stated: refreshAccessToken(R) succeeds for every refresh token R the
\* authority generated, with a token that verifies as 'access', and
\* refreshAccessToken(A) returns { error: 'Invalid token type' } for every
\* access token A it generated, minting nothing.
C16_EveryGeneratedToken ==
  (ev.type = "refreshToken" /\ ev.token \in ev.before
     /\ ev.token.sig = jwtSecret[ev.a]) =>
     /\ ev.token.type = "refresh" =>
           /\ "accessToken" \in DOMAIN ev.result
           /\ VerifyToken(jwtSecret[ev.a], ev.result.accessToken, ev.t).valid
           /\ VerifyToken(jwtSecret[ev.a], ev.result.accessToken, ev.t).payload.type
                 = "access"
     /\ ev.token.type = "access" =>
           /\ ev.result = [error |-> "Invalid token type"]
           /\ ev.minted = {}

\* C16 amended: the same, for the generated tokens whose lifetime has not
\* elapsed; an access token mints nothing at any time.
C16_TypeSafety ==
  (ev.type = "refreshToken" /\ ev.token \in ev.before
     /\ ev.token.sig = jwtSecret[ev.a]) =>
     /\ (ev.token.type = "refresh" /\ Age(ev.token, ev.t) < 86400) =>
           /\ "accessToken" \in DOMAIN ev.result
           /\ VerifyToken(jwtSecret[ev.a], ev.result.accessToken, ev.t).valid
           /\ VerifyToken(jwtSecret[ev.a], ev.result.accessToken, ev.t).payload.type
                 = "access"
           /\ ev.result.accessToken \in issued
     /\ (ev.token.type = "access" /\ Age(ev.token, ev.t) < 900) =>
           ev.result = [error |-> "Invalid token type"]
     /\ ev.token.type = "access" =>
           /\ ev.minted = {}
           /\ issued = ev.before
           /\ "accessToken" \notin DOMAIN ev.result

\* C16 witness: a refresh token has just been exchanged for an access token.
C16_Witness ==
  /\ ev.type = "refreshToken"
  /\ ev.token \in ev.before
  /\ ev.token.type = "refresh"
  /\ "accessToken" \in DOMAIN ev.result
  /\ ev.result.accessToken.type = "access"
  /\ ev.result.accessToken \in issued

\* C17: a token signed with one secret is reported { valid: false, error:
\* 'Invalid token' } by an authority constructed with another secret, before
\* and after its expiry; refreshAccessToken on it returns that error and
\* mints nothing.
C17_CrossSecretRejected ==
  /\ (ev.type = "verify" /\ ev.token \in issued /\ ev.token.sig # jwtSecret[ev.a]) =>
        ev.result = [valid |-> FALSE, error |-> "Invalid token"]
  /\ (ev.type = "refreshToken" /\ ev.token \in ev.before
        /\ ev.token.sig # jwtSecret[ev.a]) =>
        /\ ev.result = [error |-> "Invalid token"]
        /\ ev.minted = {}
        /\ issued = ev.before

\* C17 witness: the other authority has just refused an expired token of the
\* first as invalid, not as expired.
C17_Witness ==
  /\ ev.type = "verify"
  /\ ev.token \in issued
  /\ ev.token.sig = K1
  /\ jwtSecret[ev.a] = K2
  /\ Age(ev.token, ev.t) >= 900
  /\ ev.token.type = "access"
  /\ ev.result.error = "Invalid token"

\* C18: at the authority that signed it a token verifies as valid while fewer
\* than 900 s (access) or 86400 s (refresh) have passed on the clock since it
\* was issued, and as { valid: false, error: 'Token expired' } from then on,
\* at every later instant; generateTokens always reports expiresIn = 900.
C18_Lifetime ==
  /\ (ev.type = "verify" /\ ev.token \in issued /\ ev.token.sig = jwtSecret[ev.a]) =>
        LET life == IF ev.token.type = "access" THEN 900 ELSE 86400 IN
        /\ Age(ev.token, ev.t) < life => ev.result.valid
        /\ Age(ev.token, ev.t) >= life =>
              ev.result = [valid |-> FALSE, error |-> "Token expired"]
  /\ \A a \in Auths, token \in issued, t \in AuthTimes :
        (token.sig = jwtSecret[a] /\ t >= now
           /\ ~VerifyToken(jwtSecret[a], token, now).valid) =>
           VerifyToken(jwtSecret[a], token, t) = [valid |-> FALSE, error |-> "Token expired"]
  /\ ev.type = "generate" =>
        /\ ev.result.expiresIn = 900
        /\ ev.result.accessToken.exp - ev.result.accessToken.iat = 900
        /\ ev.result.refreshToken.exp - ev.result.refreshToken.iat = 86400

\* C18 witness: an access token verified exactly 900 s after its issue is
\* expired, while the refresh token issued with it is still there to use.
C18_Witness ==
  /\ ev.type = "verify"
  /\ ev.token \in issued
  /\ ev.token.type = "access"
  /\ ev.token.sig = jwtSecret[ev.a]
  /\ Age(ev.token, ev.t) = 900
  /\ ev.result = [valid |-> FALSE, error |-> "Token expired"]

\* C19: refreshAccessToken(t) returns the error verifyToken(t) reports when t
\* is not valid ('Invalid token' for a non-token or a wrongly signed token,
\* 'Token expired' for a well signed one past its lifetime); on success it
\* returns { accessToken, expiresIn: 900 } and nothing else, the only token
\* minted is that access token, and it carries the service of the refresh
\* token.
C19_RefreshErrorsAndResult ==
  ev.type = "refreshToken" =>
     /\ (ev.token = Malformed \/ ev.token.sig # jwtSecret[ev.a]) =>
           ev.result = [error |-> "Invalid token"]
     /\ (ev.token # Malformed /\ ev.token.sig = jwtSecret[ev.a]
           /\ (ev.t \div 1000) >= ev.token.exp) =>
           ev.result = [error |-> "Token expired"]
     /\ "error" \in DOMAIN ev.result => (DOMAIN ev.result = {"error"} /\ issued = ev.before)
     /\ "error" \notin DOMAIN ev.result =>
           /\ DOMAIN ev.result = {"accessToken", "expiresIn"}
           /\ ev.result.expiresIn = 900
           /\ ev.token.type = "refresh"
           /\ ev.result.accessToken.type = "access"
           /\ ev.result.accessToken.service = ev.token.service
           /\ ev.result.accessToken.iat = ev.t \div 1000
           /\ issued = ev.before \cup {ev.result.accessToken}

\* C19 witness: a refresh token presented after its 86400 s has been refused
\* as expired.
C19_Witness ==
  /\ ev.type = "refreshToken"
  /\ ev.token \in ev.before
  /\ ev.token.type = "refresh"
  /\ ev.token.sig = jwtSecret[ev.a]
  /\ ev.result = [error |-> "Token expired"]

\* A 401 answer with this message (and code, if any): next() not called,
\* req.service not set.
Is401(res, message, code) ==
  /\ res.status = 401
  /\ res.message = message
  /\ res.code = code
  /\ res.next = 0
  /\ res.service = NoService

CarriesValidAccess(h, secret, t) ==
  /\ h.scheme = "Bearer "
  /\ h.token # Malformed
  /\ h.token.sig = secret
  /\ (t \div 1000) < h.token.exp
  /\ h.token.type = "access"

\* C21: the middleware lets a request through without checking a token only
\* when the request path is one of excludePaths; on any other path next() is
\* called only when the Authorization header carries a valid, unexpired
\* access token.
C21_OnlyListedPathsSkipAuth ==
  (ev.type = "request" /\ ev.res.next > 0) =>
     \/ ev.path \in middleware.excludePaths
     \/ CarriesValidAccess(ev.authHeader, middleware.jwtSecret, ev.t)

\* C22: the optional middleware calls next() exactly once for every request
\* and sends no response; req.service is { name: payload.service,
\* authenticated: true } exactly when the header is 'Bearer ' followed by a
\* valid, unexpired access token, and { authenticated: false } otherwise.
C22_OptionalNeverBlocks ==
  ev.type = "optional" =>
     /\ ev.res.next = 1
     /\ ev.res.status = 0
     /\ IF CarriesValidAccess(ev.authHeader, ev.secret, ev.t)
        THEN ev.res.service = [name |-> ev.authHeader.token.service,
                               authenticated |-> TRUE]
        ELSE ev.res.service = [authenticated |-> FALSE]

\* C22 witness: a refresh token still in its lifetime went through as an
\* unauthenticated request.
C22_Witness ==
  /\ ev.type = "optional"
  /\ ev.authHeader.scheme = "Bearer "
  /\ ev.authHeader.token \in issued
  /\ ev.authHeader.token.type = "refresh"
  /\ ev.authHeader.token.sig = ev.secret
  /\ (ev.t \div 1000) < ev.authHeader.token.exp
  /\ ev.res.next = 1
  /\ ev.res.service = [authenticated |-> FALSE]

\* C25: a client made by client.withHeaders(h) sends, on each request it
\* makes, every header of h together with the original client's default
\* headers.
C25_WithHeadersSendsThem ==
  (ev.type \in {"fetch", "get"} /\ ev.c = "newClient" /\ ev.fetchHeaders = NoHeaders) =>
    LET h == httpClient["newClient"].options.headers IN
    \A k \in DOMAIN h : k \in DOMAIN ev.sent.headers /\ ev.sent.headers[k] = h[k]

\* the withRetry call in progress, if there is one
Retrying == batchRun.state \in {"calling", "sleeping"}
\* min(initialDelayMs * backoffMultiplier^attempt, maxDelayMs)
BackoffDelay(cfg, attempt) ==
  LET d == cfg.initialDelayMs * Pow(cfg.backoffMultiplier, attempt) IN
  IF d < cfg.maxDelayMs THEN d ELSE cfg.maxDelayMs
\* the waits so far are the backoff delays of attempts 0, 1, ...
WaitsAreBackoff(cfg, sleeps) ==
  \A k \in 1..Len(sleeps) : sleeps[k] = BackoffDelay(cfg, k - 1)
AllFailed(tries) == \A k \in 1..Len(tries) : ~tries[k]

\* while withRetry runs: at most maxRetries + 1 invocations, each one after
\* the first preceded by a failure and one wait
C23_WhileRetrying ==
  Retrying =>
    LET m == batchRun.config.maxRetries IN
    /\ batchRun.attempt + 1 <= m + 1
    /\ AllFailed(batchRun.tries)
    /\ WaitsAreBackoff(batchRun.config, batchRun.sleeps)
    /\ batchRun.state = "calling" =>
         Len(batchRun.tries) = batchRun.attempt /\ Len(batchRun.sleeps) = batchRun.attempt
    /\ batchRun.state = "sleeping" =>
         Len(batchRun.tries) = batchRun.attempt + 1 /\ Len(batchRun.sleeps) = batchRun.attempt + 1
                                                     /\ batchRun.attempt < m

\* once withRetry has settled: it returned the value of the first successful
\* invocation, or all maxRetries + 1 invocations failed and it threw the
\* error of the last one; one wait between two invocations, none after the last
C23_WhenSettled ==
  ("settled" \in DOMAIN batchRun /\ Len(batchRun.settled.tries) > 0) =>
    LET done == batchRun.settled
        m == done.config.maxRetries
        n == Len(done.tries)
    IN /\ n <= m + 1
       /\ AllFailed(SubSeq(done.tries, 1, n - 1))
       /\ Len(done.sleeps) = n - 1
       /\ WaitsAreBackoff(done.config, done.sleeps)
       /\ done.threw <=> ~done.tries[n]
       /\ done.threw => n = m + 1 /\ done.error.message[3] = m
       /\ (~done.threw /\ batchRun.fn = "withRetry") => done.value = <<"result">>

\* C23: withRetry(op, { maxRetries: m }) invokes op at most m + 1 times and
\* always terminates; it returns the result of the first successful
\* invocation without invoking op again, rejects with the last error when
\* all m + 1 invocations fail, waits calculateDelay(attempt) between
\* attempts and does not wait after the last one.
C23_WithRetry ==
  /\ [](C23_WhileRetrying /\ C23_WhenSettled)
  /\ (Retrying ~> batchRun.state = "done")

\* all three invocations failed, with the second wait capped by maxDelayMs
C23_Witness ==
  /\ batchRun.state = "done"
  /\ batchRun.fn = "withRetry"
  /\ batchRun.settled.threw
  /\ batchRun.settled.sleeps = <<100, 150>>
  /\ batchRun.dbCalls = 3

\* ceil(n / b)
CeilDiv(n, b) == (n + b - 1) \div b
\* a finished call of batchInsert, batchUpsert or batchDelete
WholeBatchDone ==
  batchRun.state = "done" /\ batchRun.fn \in {"batchInsert", "batchUpsert", "batchDelete"}

\* C24: batchInsert, batchUpsert and batchDelete over n items with batch
\* size b >= 1 report batches = ceil(n / b), attempt every batch in input
\* order even after an earlier batch has failed, and count each item once
\* (succeeded + failed = n); an empty input returns success with all counts
\* 0 and no database call.
C24_EveryBatchAttempted ==
  WholeBatchDone =>
    LET n == Len(batchRun.items)
        res == batchRun.results
    IN /\ res["batches"] = CeilDiv(n, batchRun.batchSize)
       /\ Len(batchRun.attempted) = res["batches"]
       /\ Flatten(batchRun.attempted) = batchRun.items
       /\ \A k \in 1..Len(batchRun.attempted) :
            Len(batchRun.attempted[k]) \in 1..batchRun.batchSize
       /\ res[CountField(batchRun.fn)] + res["failed"] = n
       /\ n = 0 => /\ res["success"]
                   /\ res[CountField(batchRun.fn)] = 0 /\ res["failed"] = 0
                   /\ batchRun.dbCalls = 0

\* three records in batches of two: the first batch failed after its
\* retries and the second was inserted all the same
C24_Witness ==
  /\ WholeBatchDone
  /\ batchRun.fn = "batchInsert"
  /\ Len(batchRun.items) = 3 /\ batchRun.batchSize = 2
  /\ batchRun.results["failed"] = 2
  /\ batchRun.results["inserted"] = 1
  /\ batchRun.results["errors"][1].batchIndex = 0
  /\ batchRun.config.maxRetries > 0

\* C30: for batchInsert, batchUpdate, batchUpsert and batchDelete the
\* returned success flag is true exactly when the returned failed count is
\* 0, and for batchUpdate updated + failed is the number of input updates.
C30_SuccessIffNoneFailed ==
  (batchRun.state = "done" /\ batchRun.fn \in BatchFns) =>
    /\ batchRun.results["success"] <=> batchRun.results["failed"] = 0
    /\ batchRun.fn = "batchUpdate" =>
         batchRun.results["updated"] + batchRun.results["failed"] = Len(batchRun.items)

\* C26: after clearTokens() the three credentials stay null until a call
\* of authenticate(), refresh(), getValidToken() or request() issued after
\* it; a renewal already in flight when clearTokens() ran does not
\* repopulate them.  (Credentials are stored only where a chain ends: every
\* chain that stores was issued after the last clearTokens().)
C26_ClearedUntilNextCall ==
  (ev.type = "done" /\ ev.outcome = "resolved") => ev.start > clearedAt

\* C27: with well-formed success bodies, in every reachable state
\* accessToken is null exactly when accessTokenExpiry is null, and a
\* non-null refreshToken implies a non-null accessToken, under any
\* interleaving of authenticate(), refresh(), getValidToken(), request() and
\* clearTokens().
C27_CredentialsConsistent ==
  /\ accessToken = Null <=> accessTokenExpiry = Null
  /\ refreshToken # Null => accessToken # Null

\* a rejected refresh call has just dropped the refresh token while the
\* access token and its expiry stay stored
C27_Witness ==
  /\ ev.type = "fallback"
  /\ ev.before.refreshToken # Null
  /\ refreshToken = Null
  /\ accessToken # Null
  /\ accessTokenExpiry # Null

\* C28: a renewal that fails leaves the stored access token and its expiry
\* as they were.  A refresh() whose refresh call is rejected and whose
\* fallback authenticate() also fails changes only refreshToken, to null (in
\* the step that receives the rejection); a refresh() or authenticate() whose
\* transport call throws changes no credential field, and in refresh() the
\* throw propagates without a fallback to authenticate().
C28_FailedRenewalKeepsToken ==
  /\ ev.type = "fallback" =>
        /\ accessToken = ev.before.accessToken
        /\ accessTokenExpiry = ev.before.accessTokenExpiry
        /\ refreshToken = Null
  /\ (ev.type = "done" /\ ev.outcome = "rejected") =>
        /\ CurCred = ev.after
        /\ ev.after = ev.before
        /\ ev.answers # <<>> /\ ev.answers[Len(ev.answers)] = "throw" =>
              ev.err = TransportError
  /\ (ev.type = "done" /\ ev.answers # <<>> /\ ev.calls[1] = "refresh"
        /\ ev.answers[1] = "throw") =>
        /\ ev.outcome = "rejected"
        /\ ev.calls = <<"refresh">>
        /\ ev.answers = <<"throw">>

\* refresh() with a stored token pair: the refresh call and the fallback
\* authenticate() were both rejected; the access token is still stored and
\* only refreshToken has become null
C28_Witness ==
  /\ ev.type = "done"
  /\ ev.entry = "refresh"
  /\ ev.outcome = "rejected"
  /\ ev.answers = <<"notok", "notok">>
  /\ ev.held
  /\ accessToken # Null
  /\ accessTokenExpiry # Null
  /\ refreshToken = Null

\* the longest a token can outlive the generateTokens() call it comes from (s)
FamilyLifetime == RefreshLifetime + AccessLifetime
\* the issue times (s) of the generateTokens() calls a token can come from:
\* its own, or that of a refresh token that was valid when it was signed
RootsOf(token) ==
  {token.iat} \cup
  {r.iat : r \in {x \in issued : /\ x.type = "refresh" /\ token.type = "access"
                                 /\ x.sig = token.sig /\ x.service = token.service
                                 /\ x.iat <= token.iat /\ token.iat < x.exp}}

\* C29: every token that comes from a generateTokens() call made at time t,
\* directly or through refreshAccessToken(), is reported expired by
\* verifyToken at every time later than t + 86400 s + 900 s: an access token
\* never mints a token, and a refresh token mints only access tokens and only
\* while it is itself unexpired.
C29_FamilyExpires ==
  /\ \A tok \in issued :
        /\ tok.type \in {"access", "refresh"}
        /\ tok.type = "refresh" => tok.exp = tok.iat + RefreshLifetime
        /\ tok.type = "access" => tok.exp = tok.iat + AccessLifetime
  /\ ev.type = "refreshToken" =>
        /\ ev.token.type # "refresh" => ev.minted = {} /\ issued = ev.before
        /\ ev.minted # {} =>
              /\ ev.token \in ev.before
              /\ ev.token.type = "refresh"
              /\ ClockSeconds(ev.t) < ev.token.exp
              /\ \A m \in ev.minted :
                    /\ m.type = "access"
                    /\ m.exp <= ev.token.iat + FamilyLifetime
  /\ (ev.type = "verify" /\ ev.token \in issued) =>
        \A s \in RootsOf(ev.token) :
           ev.t > (s * 1000) + (FamilyLifetime * 1000) =>
              /\ ~ev.result.valid
              /\ ev.token.sig = jwtSecret[ev.a] => ev.result.error = "Token expired"

\* an access token minted in the last second of its refresh token's life is
\* verified after the family's lifetime, by the authority that signed it
C29_Witness ==
  /\ ev.type = "verify"
  /\ ev.token \in issued
  /\ ev.token.type = "access"
  /\ ev.token.sig = jwtSecret[ev.a]
  /\ \E s \in RootsOf(ev.token) :
        /\ s + RefreshLifetime - 1 = ev.token.iat
        /\ ev.t > (s * 1000) + (FamilyLifetime * 1000)
  /\ ev.result.error = "Token expired"

====
